---- MODULE Spec2Model ----
(***************************************************************************)
(* ccmonitor: a credit-card management web client.                         *)
(*                                                                         *)
(* The module models the parts of the client, each with its own            *)
(* specification over the shared variable tuple:                           *)
(*   Spec            the remote data client (services/supabase): the       *)
(*                   operations on credit_cards and payment_reminders      *)
(*   SpecStatements  the remote data client: the operations on             *)
(*                   bill_statements and the storage bucket                *)
(*   SpecInserts     the remote data client: the three operations that     *)
(*                   insert a row                                          *)
(*   SpecAuth        the session holder (AuthProvider), the route gate     *)
(*                   and the shell's sign-out                              *)
(*   SpecAuthFair    the same with the event loop running what is ready    *)
(*   SpecStartup     the same from the evaluation of the service module    *)
(*   SpecForm        the add-card and edit-card forms                      *)
(*   SpecSchema      the credit-card validation schema                     *)
(*   SpecReminderSchema  the reminder validation schema                    *)
(*   SpecCardsPage       the card list page                                *)
(*   SpecRemindersPage   the reminders page, in its two copies             *)
(*   SpecStatementsPage  the statements page                               *)
(*   SpecDashboard       the dashboard's list of upcoming payments         *)
(*   SpecSubmissions     the card forms and the statements page's upload   *)
(*   SpecViews           the three pages that hold an entity list          *)
(* A specification leaves the variables of the other parts unchanged.      *)
(***************************************************************************)
EXTENDS Integers, Sequences, FiniteSets, TLC

VARIABLES
    authUser,   \* the user supabase.auth.getUser() reports; NoUser when signed out
    db,         \* the hosted tables: table name -> set of rows
    storage,    \* the bill_statements bucket: set of stored file paths
    nextId,     \* next row id the backend hands out
    now,        \* Date.now(), as a counter of uploads started
    call,       \* the data operation in progress or last finished
    reqs,       \* the requests that operation has issued so far, in order
    user,       \* AuthProvider: useState<User | null>(null)
    loading,    \* AuthProvider: useState(true)
    startup,    \* loadUser(): its position and the answer of getCurrentUser()
    events,     \* auth state-change events emitted and not yet handled
    emitted,    \* auth events emitted so far: their number and the last identity
    handled,    \* number of auth events the onAuthStateChange callback has handled
    route,      \* the location the router is at
    signOut,    \* Layout.handleSignOut: its position and how signOut() ended
    env,        \* import.meta.env: VITE_SUPABASE_URL and VITE_SUPABASE_ANON_KEY
    moduleCopy, \* which copy of the service module the build loads
    supabase,   \* the service module: loading, or its client, or the error it threw
    schemaInput,    \* the raw record handed to creditCardFormSchema
    schemaResult,   \* what safeParse returned for it; NotRun before
    formPage,       \* the card form that is mounted, or where it navigated to
    values,         \* the form's values (react-hook-form)
    creditCard,     \* EditCreditCard: useState<CreditCard | null>(null)
    isLoading,      \* AddCreditCard: saving; EditCreditCard: the card is being fetched
    isSaving,       \* EditCreditCard: useState(false)
    request,        \* the addCreditCard / updateCreditCard call the form awaits
    editCopy,       \* which copy of EditCreditCard is mounted
    inFlight,       \* the number of submission requests the form awaits
    formToast,      \* the last notification a form's onSubmit showed
    storedCards,    \* the rows of credit_cards the forms read and write
    reminderInput,  \* the raw record handed to reminderFormSchema
    reminderResult, \* what safeParse returned for it; ReminderNotRun before
    creditCards,    \* CreditCards: useState<CreditCardType[]>([])
    cardsLoading,   \* CreditCards: isLoading, useState(true)
    cardToDelete,   \* CreditCards: useState<string | null>(null)
    cardDialog,     \* CreditCards: the card whose delete dialog is open
    cardCalls,      \* CreditCards: the handleDeleteCard calls awaiting their answer
    cardsToast,     \* CreditCards: the last notification shown
    remindersCopy,  \* which copy of the reminders page is mounted
    reminders,      \* PaymentReminders: useState<PaymentReminderType[]>([])
    remindersLoading,   \* PaymentReminders: isLoading, useState(true)
    isDialogOpen,   \* PaymentReminders: useState(false)
    editingReminder,    \* PaymentReminders: useState<PaymentReminderType | null>(null)
    reminderToDelete,   \* PaymentReminders: useState<string | null>(null)
    reminderForm,   \* PaymentReminders: the dialog form's values
    reminderCalls,  \* PaymentReminders: the remote calls its handlers await
    remindersToast, \* PaymentReminders: the last notification shown
    lastEvent,      \* PaymentReminders: the event handled last and the reminder it was on
    remotePaid,     \* payment_reminders as stored: reminder id -> is_paid
    statementsView, \* BillStatements: unmounted, or loading (isLoading), or shown
    statements,     \* BillStatements: useState<BillStatementType[]>([])
    isUploading,    \* BillStatements: useState(false)
    uploadDialogOpen,   \* BillStatements: useState(false)
    selectedFile,   \* BillStatements: the MIME type of the selected file, or NoFile
    uploadFields,   \* BillStatements: billDate, dueDate, statementAmount
    statementCalls, \* BillStatements: the remote calls its handlers await
    statementsToast,    \* BillStatements: the last notification shown
    paymentReminders,   \* Dashboard: useState<PaymentReminder[]>([])
    dashboardLoading,   \* Dashboard: isLoading
    renderedAt,         \* Dashboard: new Date() of the last render, in hours
    upcomingReminders   \* Dashboard: the list computed by the last render

clientVars == <<authUser, db, storage, nextId, now, call, reqs>>

moduleVars == <<env, moduleCopy, supabase>>

sessionVars ==
    <<user, loading, startup, events, emitted, handled, route, signOut, moduleVars>>

schemaVars == <<schemaInput, schemaResult>>

formVars ==
    <<formPage, values, creditCard, isLoading, isSaving, request, editCopy, inFlight,
      formToast, storedCards>>

reminderSchemaVars == <<reminderInput, reminderResult>>

cardsPageVars ==
    <<creditCards, cardsLoading, cardToDelete, cardDialog, cardCalls, cardsToast>>

remindersPageVars ==
    <<remindersCopy, reminders, remindersLoading, isDialogOpen, editingReminder,
      reminderToDelete, reminderForm, reminderCalls, remindersToast, lastEvent,
      remotePaid>>

statementsPageVars ==
    <<statementsView, statements, isUploading, uploadDialogOpen, selectedFile,
      uploadFields, statementCalls, statementsToast>>

dashboardVars == <<paymentReminders, dashboardLoading, renderedAt, upcomingReminders>>

\* the pages that hold an entity list
viewVars == <<cardsPageVars, remindersPageVars, statementsPageVars>>

vars ==
    <<clientVars, sessionVars, schemaVars, formVars, reminderSchemaVars, viewVars,
      dashboardVars>>

\* what a step of one part leaves alone
nonClientVars ==
    <<sessionVars, schemaVars, formVars, reminderSchemaVars, viewVars, dashboardVars>>
nonSessionVars ==
    <<db, storage, nextId, now, call, reqs, schemaVars, formVars, reminderSchemaVars,
      viewVars, dashboardVars>>
nonSchemaVars ==
    <<clientVars, sessionVars, formVars, reminderSchemaVars, viewVars, dashboardVars>>
nonFormVars ==
    <<clientVars, sessionVars, schemaVars, reminderSchemaVars, viewVars, dashboardVars>>
nonReminderSchemaVars ==
    <<clientVars, sessionVars, schemaVars, formVars, viewVars, dashboardVars>>
nonViewVars ==
    <<clientVars, sessionVars, schemaVars, formVars, reminderSchemaVars, dashboardVars>>
nonDashboardVars ==
    <<clientVars, sessionVars, schemaVars, formVars, reminderSchemaVars, viewVars>>
nonCardsPageVars == <<nonViewVars, remindersPageVars, statementsPageVars>>
nonRemindersPageVars == <<nonViewVars, cardsPageVars, statementsPageVars>>
nonStatementsPageVars == <<nonViewVars, cardsPageVars, remindersPageVars>>

----------------------------------------------------------------------------
(* Bounds of the model *)

\* rows the client may insert in one behaviour (all tables together)
MaxInserts == 1

\* auth state-change events the provider emits in one behaviour
MaxEvents == 2

\* fields of a schema input that differ from the well-formed base record
MaxOddFields == 1

\* handleDeleteCard calls that await their answer at one time
MaxCardCalls == 2

\* user events the reminders page handles in one behaviour
MaxReminderEvents == 4
MaxInFlight == 2
MaxStatementCalls == 2
MaxStatements == 3
MaxDashboardReminders == 4

----------------------------------------------------------------------------
(* The remote data client: src/components/Layout.tsx 269-504 *)

Users == {"u1", "u2"}
NoUser == "none"
None == "null"
\* an id or a path that is not there
NoId == 0
NoPath == <<>>

Tables == {"credit_cards", "payment_reminders", "bill_statements"}

\* the credit card ids the statement operations are called with
CardArgs == {1}

\* `${user.user.id}/${creditCardId}/${fileName}`, fileName = `${Date.now()}_${file.name}`
FilePath(userId, creditCardId, stamp) == <<userId, creditCardId, stamp>>

Row(id, userId, path) == [id |-> id, user_id |-> userId, file_path |-> path]

\* the rows present before the client acts: one row per user in every table
InitialRows(t) ==
    IF t = "bill_statements"
    THEN {Row(1, "u1", FilePath("u1", 1, 0)), Row(2, "u2", FilePath("u2", 1, 0))}
    ELSE {Row(1, "u1", NoPath), Row(2, "u2", NoPath)}

RowIds == 1..(2 + MaxInserts)

\* A request as it leaves the client.  A filter that the query does not carry is None.
TableRequest(table, verb, idFilter, userFilter, cardFilter, rowUser, path) ==
    [target |-> "table", name |-> table, verb |-> verb,
     id_filter |-> idFilter, user_filter |-> userFilter, card_filter |-> cardFilter,
     row_user |-> rowUser, path |-> path, ok |-> TRUE, owners |-> {}]

StorageRequest(verb, path) ==
    [target |-> "storage", name |-> "bill_statements", verb |-> verb,
     id_filter |-> NoId, user_filter |-> None, card_filter |-> NoId,
     row_user |-> None, path |-> path, ok |-> TRUE, owners |-> {}]


\* the rows a filtered request addresses: the backend applies exactly the
\* filters the client sent (row-level security is the backend's, not the client's)
Matches(row, req) ==
    /\ req.id_filter = NoId \/ row.id = req.id_filter
    /\ req.user_filter = None \/ row.user_id = req.user_filter
    /\ req.card_filter = NoId \/ (row.file_path # NoPath /\ row.file_path[2] = req.card_filter)

Matching(req) == {row \in db[req.name] : Matches(row, req)}

\* a request together with the outcome the backend answered it with, and the
\* owners of the rows it read, changed or deleted
Answered(req, ok) ==
    [req EXCEPT !.ok = ok,
                !.owners = IF ok /\ req.target = "table" /\ req.verb # "insert"
                           THEN {row.user_id : row \in Matching(req)} ELSE {}]

Idle == call.pc = "done"

\* the operation ends: by returning (result "ok" or "error", the {error} of the
\* response) or by throwing (result "unauth", "notfound", "upload", "insert")
Finish(op, auth, res, rs) ==
    /\ call' = [op |-> op, auth |-> auth, result |-> res, pc |-> "done",
                path |-> NoPath, id |-> NoId, data_user |-> None]
    /\ reqs' = rs
    /\ UNCHANGED nonClientVars

\* the same for an operation that was handed data: data_user is the user_id
\* among the caller's data, None when the data has none
FinishWithData(op, auth, res, rs, dataUserId) ==
    /\ call' = [op |-> op, auth |-> auth, result |-> res, pc |-> "done",
                path |-> NoPath, id |-> NoId, data_user |-> dataUserId]
    /\ reqs' = rs
    /\ UNCHANGED nonClientVars

ThrowUnauth(op) ==
    /\ Finish(op, NoUser, "unauth", <<>>)
    /\ UNCHANGED <<authUser, db, storage, nextId, now>>

\* the row when the data is spread after user_id: a user_id in the data wins
InsertedRowDataLast(dataUserId, sessionUserId, path) ==
    Row(nextId, IF dataUserId = None THEN sessionUserId ELSE dataUserId, path)

\* .from(t).insert({...data, user_id: user.user.id}).select()
InsertedRow(dataUserId, sessionUserId, path) == Row(nextId, sessionUserId, path)

Insert(op, table, dataUserId) ==
    /\ Idle
    /\ IF authUser = NoUser
       THEN ThrowUnauth(op)
       ELSE /\ nextId <= 2 + MaxInserts
            /\ LET row == InsertedRow(dataUserId, authUser, NoPath)
                   req == TableRequest(table, "insert", NoId, None, NoId, row.user_id, NoPath)
               IN  \E ok \in BOOLEAN :
                     /\ FinishWithData(op, authUser, IF ok THEN "ok" ELSE "error",
                                       <<Answered(req, ok)>>, dataUserId)
                     /\ db' = IF ok THEN [db EXCEPT ![table] = @ \cup {row}] ELSE db
                     /\ nextId' = IF ok THEN nextId + 1 ELSE nextId
            /\ UNCHANGED <<authUser, storage, now>>

\* .from(t).select('*').eq(...)
Select(op, req, checked) ==
    /\ Idle
    /\ IF checked /\ authUser = NoUser
       THEN ThrowUnauth(op)
       ELSE /\ \E ok \in BOOLEAN :
                 Finish(op, authUser, IF ok THEN "ok" ELSE "error", <<Answered(req, ok)>>)
            /\ UNCHANGED <<authUser, db, storage, nextId, now>>

\* .from(t).update(data).eq('id', id).select(): the matched rows are rewritten
Update(op, req) ==
    /\ Idle
    /\ \E ok \in BOOLEAN :
         Finish(op, authUser, IF ok THEN "ok" ELSE "error", <<Answered(req, ok)>>)
    /\ UNCHANGED <<authUser, db, storage, nextId, now>>

\* .from(t).delete().eq('id', id): the matched rows are removed
Delete(op, req) ==
    /\ Idle
    /\ \E ok \in BOOLEAN :
         /\ Finish(op, authUser, IF ok THEN "ok" ELSE "error", <<Answered(req, ok)>>)
         /\ db' = IF ok THEN [db EXCEPT ![req.name] = @ \ Matching(req)] ELSE db
    /\ UNCHANGED <<authUser, storage, nextId, now>>

addCreditCard ==
    \E dataUserId \in Users \cup {None} : Insert("addCreditCard", "credit_cards", dataUserId)

getCreditCards ==
    Select("getCreditCards",
           TableRequest("credit_cards", "select", NoId, authUser, NoId, None, NoPath), TRUE)

getCreditCardById ==
    \E id \in RowIds :
      Select("getCreditCardById",
             TableRequest("credit_cards", "select", id, authUser, NoId, None, NoPath), TRUE)

updateCreditCard ==
    \E id \in RowIds :
      Update("updateCreditCard",
             TableRequest("credit_cards", "update", id, None, NoId, None, NoPath))

deleteCreditCard ==
    \E id \in RowIds :
      Delete("deleteCreditCard",
             TableRequest("credit_cards", "delete", id, None, NoId, None, NoPath))

addPaymentReminder ==
    \E dataUserId \in Users \cup {None} :
      Insert("addPaymentReminder", "payment_reminders", dataUserId)

getPaymentReminders ==
    Select("getPaymentReminders",
           TableRequest("payment_reminders", "select", NoId, authUser, NoId, None, NoPath), TRUE)

updatePaymentReminder ==
    \E id \in RowIds :
      Update("updatePaymentReminder",
             TableRequest("payment_reminders", "update", id, None, NoId, None, NoPath))

deletePaymentReminder ==
    \E id \in RowIds :
      Delete("deletePaymentReminder",
             TableRequest("payment_reminders", "delete", id, None, NoId, None, NoPath))

getBillStatements ==
    \E creditCardId \in CardArgs :
      Select("getBillStatements",
             TableRequest("bill_statements", "select", NoId, authUser, creditCardId,
                          None, NoPath), TRUE)

\* uploadBillStatement, up to the answer of storage.upload(filePath, file, {upsert: false})
uploadBillStatementUpload ==
    /\ Idle
    /\ IF authUser = NoUser
       THEN ThrowUnauth("uploadBillStatement")
       ELSE /\ now < MaxInserts
            /\ now' = now + 1
            /\ \E creditCardId \in CardArgs, ok \in BOOLEAN, dataUserId \in Users \cup {None} :
                 LET filePath == FilePath(authUser, creditCardId, now + 1)
                     req == StorageRequest("upload", filePath)
                 IN
                     /\ reqs' = <<Answered(req, ok)>>
                     /\ IF ok
                        THEN /\ storage' = storage \cup {filePath}
                             /\ call' = [op |-> "uploadBillStatement", auth |-> authUser,
                                         result |-> None, pc |-> "uploaded",
                                         path |-> filePath, id |-> NoId,
                                         data_user |-> dataUserId]
                        ELSE /\ storage' = storage
                             /\ call' = [op |-> "uploadBillStatement", auth |-> authUser,
                                         result |-> "upload", pc |-> "done",
                                         path |-> filePath, id |-> NoId,
                                         data_user |-> dataUserId]
            /\ UNCHANGED <<authUser, db, nextId, nonClientVars>>

\* the bill_statements insert and its answer; user_id is the user read at the start
uploadBillStatementInsert ==
    /\ call.op = "uploadBillStatement" /\ call.pc = "uploaded"
    /\ LET row == InsertedRow(call.data_user, call.auth, call.path)
           req == TableRequest("bill_statements", "insert", NoId, None, NoId,
                               row.user_id, call.path)
       IN  \E ok \in BOOLEAN :
             /\ reqs' = Append(reqs, Answered(req, ok))
             /\ IF ok
                THEN /\ db' = [db EXCEPT !["bill_statements"] = @ \cup {row}]
                     /\ nextId' = nextId + 1
                     /\ call' = [call EXCEPT !.result = "ok", !.pc = "done"]
                ELSE /\ UNCHANGED <<db, nextId>>
                     /\ call' = [call EXCEPT !.pc = "insertFailed"]
    /\ UNCHANGED <<authUser, storage, now, nonClientVars>>

\* the insert's error thrown without the compensating remove
uploadBillStatementNoRemove ==
    /\ call.op = "uploadBillStatement" /\ call.pc = "insertFailed"
    /\ call' = [call EXCEPT !.result = "insert", !.pc = "done"]
    /\ UNCHANGED <<authUser, db, storage, nextId, now, reqs, nonClientVars>>

\* if (statementError) { await storage.remove([filePath]); throw statementError }
\* the answer of remove is not looked at
uploadBillStatementRemove ==
    /\ call.op = "uploadBillStatement" /\ call.pc = "insertFailed"
    /\ \E ok \in BOOLEAN :
         /\ reqs' = Append(reqs, Answered(StorageRequest("remove", call.path), ok))
         /\ storage' = IF ok THEN storage \ {call.path} ELSE storage
    /\ call' = [call EXCEPT !.result = "insert", !.pc = "done"]
    /\ UNCHANGED <<authUser, db, nextId, now, nonClientVars>>

\* deleteBillStatement, up to the answer of select('file_path').eq('id', id).single()
deleteBillStatementSelect ==
    /\ Idle
    /\ \E id \in RowIds, ok \in BOOLEAN :
         LET req == TableRequest("bill_statements", "select", id, None, NoId, None, NoPath)
             found == Matching(req)
         IN  /\ reqs' = <<Answered(req, ok /\ found # {})>>
             /\ IF ok /\ found # {}
                THEN call' = [op |-> "deleteBillStatement", auth |-> authUser,
                              result |-> None, pc |-> "found",
                              path |-> (CHOOSE r \in found : TRUE).file_path, id |-> id,
                              data_user |-> None]
                ELSE call' = [op |-> "deleteBillStatement", auth |-> authUser,
                              result |-> "notfound", pc |-> "done",
                              path |-> NoPath, id |-> id, data_user |-> None]
    /\ UNCHANGED <<authUser, db, storage, nextId, now, nonClientVars>>

\* storage.remove([statement.file_path]); a storageError is thrown
deleteBillStatementRemove ==
    /\ call.op = "deleteBillStatement" /\ call.pc = "found"
    /\ \E ok \in BOOLEAN :
         /\ reqs' = Append(reqs, Answered(StorageRequest("remove", call.path), ok))
         /\ storage' = IF ok THEN storage \ {call.path} ELSE storage
         /\ call' = IF ok THEN [call EXCEPT !.pc = "removed"]
                          ELSE [call EXCEPT !.result = "storage", !.pc = "done"]
    /\ UNCHANGED <<authUser, db, nextId, now, nonClientVars>>

\* return .from('bill_statements').delete().eq('id', statementId)
deleteBillStatementDelete ==
    /\ call.op = "deleteBillStatement" /\ call.pc = "removed"
    /\ LET req == TableRequest("bill_statements", "delete", call.id, None, NoId, None, NoPath)
       IN  \E ok \in BOOLEAN :
             /\ reqs' = Append(reqs, Answered(req, ok))
             /\ db' = IF ok THEN [db EXCEPT !["bill_statements"] = @ \ Matching(req)] ELSE db
             /\ call' = [call EXCEPT !.result = IF ok THEN "ok" ELSE "error", !.pc = "done"]
    /\ UNCHANGED <<authUser, storage, nextId, now, nonClientVars>>

\* storage.createSignedUrl(filePath, 3600); returns data?.signedUrl
getStatementUrl ==
    /\ Idle
    /\ \E path \in storage, ok \in BOOLEAN :
         Finish("getStatementUrl", authUser, IF ok THEN "ok" ELSE "error",
                <<Answered(StorageRequest("sign", path), ok)>>)
    /\ UNCHANGED <<authUser, db, storage, nextId, now>>

\* the auth provider's session changes: signIn / signOut, here or in another tab
authChange ==
    /\ \E u \in (Users \cup {NoUser}) \ {authUser} : authUser' = u
    /\ UNCHANGED <<db, storage, nextId, now, call, reqs, nonClientVars>>

InitClient ==
    /\ authUser \in Users \cup {NoUser}
    /\ db = [t \in Tables |-> InitialRows(t)]
    /\ storage = {r.file_path : r \in InitialRows("bill_statements")}
    /\ nextId = 3
    /\ now = 0
    /\ call = [op |-> None, auth |-> NoUser, result |-> None, pc |-> "done",
               path |-> NoPath, id |-> NoId, data_user |-> None]
    /\ reqs = <<>>

\* import.meta.env.VITE_...: undefined when the setting is absent
NotSet == "undefined"
EnvValues == {NotSet, "", "value"}

\* !value
Falsy(v) == v \in {NotSet, ""}

\* value || ''
OrEmpty(v) == IF Falsy(v) THEN "" ELSE v

LayoutCopy == "src/components/Layout.tsx"
ServicesCopy == "src/services/supabase.ts"

ModuleLoading == [state |-> "loading", error |-> None]
Created == [state |-> "created", error |-> None]
Thrown(message) == [state |-> "failed", error |-> message]

\* createClient of @supabase/supabase-js without the constructor's checks
createClientUnchecked(supabaseUrl, supabaseKey) == Created

\* createClient(supabaseUrl, supabaseKey) of @supabase/supabase-js: the
\* SupabaseClient constructor throws when either argument is falsy
createClient(supabaseUrl, supabaseKey) ==
    IF Falsy(supabaseUrl) THEN Thrown("supabaseUrl is required.")
    ELSE IF Falsy(supabaseKey) THEN Thrown("supabaseKey is required.")
    ELSE Created

\* the top-level statements of the service module, per copy
ModuleBody(copy, e) ==
    IF copy = LayoutCopy
    THEN IF Falsy(e.url) \/ Falsy(e.key)
         THEN Thrown("supabaseUrl is required")
         ELSE createClient(e.url, e.key)
    ELSE createClient(OrEmpty(e.url), OrEmpty(e.key))

\* the application is mounted only when the import of the module succeeded
Mounted == supabase.state = "created"

ModuleLoaded ==
    /\ env = [url |-> "value", key |-> "value"]
    /\ moduleCopy = LayoutCopy
    /\ supabase = Created

NoSignOut == [pc |-> "idle", outcome |-> None, at |-> 0]

\* AuthProvider as first rendered: user null, loading true, loadUser() started,
\* the listener subscribed; the router at any location
FirstRender ==
    /\ user = NoUser
    /\ loading = TRUE
    /\ startup = [pc |-> "pending", answer |-> None]
    /\ events = <<>>
    /\ emitted = [count |-> 0, last |-> None]
    /\ handled = 0
    /\ route \in {"/", "/login"}
    /\ signOut = NoSignOut

\* the same with the service module loaded from a complete environment
InitSession == FirstRender /\ ModuleLoaded

----------------------------------------------------------------------------
(* The session holder and the route gate:                                  *)
(* src/components/Layout.tsx 184-216 (AuthProvider), src/App.tsx           *)

Routes ==
    {"/login", "/register", "/", "/credit-cards", "/credit-cards/add",
     "/credit-cards/edit/:id", "/credit-cards/:id/statements", "/payment-reminders"}

NavigateLogin == "Navigate to /login"
LoadingPlaceholder == "Loading..."

\* ProtectedRoute without the loading placeholder
ProtectedRouteNoLoading(children) ==
    IF user = NoUser THEN NavigateLogin ELSE children

\* const ProtectedRoute = ({ children }) => ...
ProtectedRoute(children) ==
    IF loading
    THEN LoadingPlaceholder
    ELSE IF user = NoUser THEN NavigateLogin ELSE children

\* the page each child route of "/" puts in Layout's outlet
Page(r) ==
    CASE r = "/" -> "Dashboard"
      [] r = "/credit-cards" -> "CreditCards"
      [] r = "/credit-cards/add" -> "AddCreditCard"
      [] r = "/credit-cards/edit/:id" -> "EditCreditCard"
      [] r = "/credit-cards/:id/statements" -> "BillStatements"
      [] r = "/payment-reminders" -> "PaymentReminders"

\* <Routes> with the index route outside the gate
ElementDashboardOpen(r) ==
    CASE r = "/login" -> "Login"
      [] r = "/register" -> "Register"
      [] r = "/" -> Page(r)
      [] OTHER -> ProtectedRoute(Page(r))

\* <Routes>: /login and /register stand alone, every other route is a child
\* of the "/" route, whose element is <ProtectedRoute><Layout /></ProtectedRoute>
Element(r) ==
    CASE r = "/login" -> "Login"
      [] r = "/register" -> "Register"
      [] OTHER -> ProtectedRoute(Page(r))

Rendered == Element(route)

\* the auth provider changes state (sign-in, sign-out, token refresh) and
\* emits an event carrying the session's user, or none
authEvent ==
    /\ Mounted
    /\ emitted.count < MaxEvents
    /\ \E u \in Users \cup {NoUser} :
         /\ authUser' = u
         /\ events' = Append(events, u)
         /\ emitted' = [count |-> emitted.count + 1, last |-> u]
    /\ UNCHANGED <<user, loading, startup, handled, route, signOut, moduleVars,
                   nonSessionVars>>

\* the callback given to supabase.auth.onAuthStateChange
onAuthStateChange ==
    /\ Mounted
    /\ events # <<>>
    /\ user' = IF Head(events) # NoUser THEN Head(events) ELSE NoUser
    /\ loading' = FALSE
    /\ events' = Tail(events)
    /\ handled' = handled + 1
    /\ UNCHANGED <<authUser, startup, emitted, route, signOut, moduleVars,
                   nonSessionVars>>

\* getCurrentUser(): the provider answers with the user it has then, or the call throws
getCurrentUserAnswer ==
    /\ Mounted
    /\ startup.pc = "pending"
    /\ \E throws \in BOOLEAN :
         startup' = [pc |-> "answered", answer |-> IF throws THEN "throws" ELSE authUser]
    /\ UNCHANGED <<authUser, user, loading, events, emitted, handled, route, signOut, moduleVars,
                   nonSessionVars>>

\* setLoading(false) at the end of the try block only
LoadingAfterWithoutFinally(threw) == threw /\ loading

\* finally { setLoading(false) }
LoadingAfter(threw) == FALSE

\* loadUser() after the await: setUser(user) unless it threw; finally setLoading(false)
loadUser ==
    /\ Mounted
    /\ startup.pc = "answered"
    /\ user' = IF startup.answer = "throws" THEN user ELSE startup.answer
    /\ loading' = LoadingAfter(startup.answer = "throws")
    /\ startup' = [startup EXCEPT !.pc = "settled"]
    /\ UNCHANGED <<authUser, events, emitted, handled, route, signOut, moduleVars,
                   nonSessionVars>>

\* the user follows a link or enters a location
navigate ==
    /\ Mounted
    /\ \E r \in Routes \ {route} : route' = r
    /\ UNCHANGED <<authUser, user, loading, startup, events, emitted, handled, signOut, moduleVars,
                   nonSessionVars>>

\* <Navigate to="/login" replace /> takes effect
navigateToLogin ==
    /\ Mounted
    /\ Rendered = NavigateLogin
    /\ route' = "/login"
    /\ UNCHANGED <<authUser, user, loading, startup, events, emitted, handled, signOut, moduleVars,
                   nonSessionVars>>

\* Layout is on screen: a page under "/" is rendered
LayoutShown == route \notin {"/login", "/register"} /\ Rendered = Page(route)

\* Sign Out is pressed: handleSignOut calls signOut() and awaits it
handleSignOut ==
    /\ Mounted
    /\ LayoutShown
    /\ signOut.pc = "idle"
    /\ signOut' = [signOut EXCEPT !.pc = "pending"]
    /\ UNCHANGED <<authUser, user, loading, startup, events, emitted, handled, route,
                   moduleVars, nonSessionVars>>

\* supabase.auth.signOut() ends: it removed the session and emitted SIGNED_OUT,
\* or returned an error, or threw; AuthProvider.signOut returns { error } in
\* each case and handleSignOut goes on to navigate('/login')
handleSignOutSettled ==
    /\ Mounted
    /\ signOut.pc = "pending"
    /\ \E outcome \in {"ok", "error", "throws"} :
         /\ IF outcome = "ok"
            THEN /\ authUser' = NoUser
                 /\ events' = Append(events, NoUser)
                 /\ emitted' = [count |-> emitted.count + 1, last |-> NoUser]
            ELSE UNCHANGED <<authUser, events, emitted>>
         /\ signOut' = [pc |-> "navigated", outcome |-> outcome, at |-> emitted'.count]
    /\ route' = "/login"
    /\ UNCHANGED <<user, loading, startup, handled, moduleVars, nonSessionVars>>

\* the bundle evaluates the service module
loadServiceModule ==
    /\ supabase = ModuleLoading
    /\ supabase' = ModuleBody(moduleCopy, env)
    /\ UNCHANGED <<authUser, user, loading, startup, events, emitted, handled, route,
                   signOut, env, moduleCopy, nonSessionVars>>

----------------------------------------------------------------------------
(* JavaScript values, strings as sequences of characters, numbers in       *)
(* hundredths (12.5 is 1250)                                               *)

Str(chars) == [t |-> "string", s |-> chars, n |-> 0]
\* a number is kept in thousandths; most of the model writes it in hundredths
Milli(thousandths) == [t |-> "number", s |-> <<>>, n |-> thousandths]
Num(hundredths) == Milli(10 * hundredths)
NaNValue == [t |-> "nan", s |-> <<>>, n |-> 0]
Undefined == [t |-> "undefined", s |-> <<>>, n |-> 0]
Null == [t |-> "object", s |-> <<>>, n |-> 0]
Bool(b) == [t |-> "boolean", s |-> <<>>, n |-> IF b THEN 1 ELSE 0]

DigitChars == <<"0", "1", "2", "3", "4", "5", "6", "7", "8", "9">>
IsDigit(c) == \E i \in DOMAIN DigitChars : DigitChars[i] = c
DigitValue(c) == (CHOOSE i \in DOMAIN DigitChars : DigitChars[i] = c) - 1

RECURSIVE TrimStart(_)
TrimStart(chars) ==
    IF chars # <<>> /\ Head(chars) = " " THEN TrimStart(Tail(chars)) ELSE chars

RECURSIVE TrimEnd(_)
TrimEnd(chars) ==
    IF chars # <<>> /\ chars[Len(chars)] = " "
    THEN TrimEnd(SubSeq(chars, 1, Len(chars) - 1)) ELSE chars

RECURSIVE DigitsValue(_)
DigitsValue(chars) ==
    IF chars = <<>> THEN 0
    ELSE 10 * DigitsValue(SubSeq(chars, 1, Len(chars) - 1)) + DigitValue(chars[Len(chars)])

AllDigits(chars) == \A i \in DOMAIN chars : IsDigit(chars[i])

\* an unsigned decimal literal: digits, optionally "." and up to three digits
\* (literals with more decimals are not among the inputs of the model)
UnsignedToNumber(chars) ==
    LET dots == {i \in DOMAIN chars : chars[i] = "."}
    IN  IF dots = {}
        THEN IF chars # <<>> /\ AllDigits(chars)
             THEN Num(100 * DigitsValue(chars)) ELSE NaNValue
        ELSE LET d == CHOOSE i \in dots : TRUE
                 whole == SubSeq(chars, 1, d - 1)
                 frac == SubSeq(chars, d + 1, Len(chars))
             IN  IF /\ Cardinality(dots) = 1 /\ AllDigits(whole) /\ AllDigits(frac)
                    /\ Len(whole) + Len(frac) > 0 /\ Len(frac) <= 3
                 THEN Milli(1000 * DigitsValue(whole)
                            + (CASE Len(frac) = 0 -> 0
                                 [] Len(frac) = 1 -> 100
                                 [] Len(frac) = 2 -> 10
                                 [] Len(frac) = 3 -> 1) * DigitsValue(frac))
                 ELSE NaNValue

\* Number(string): white space trimmed, "" is 0, a signed decimal literal, else NaN
StringToNumber(chars) ==
    LET t == TrimEnd(TrimStart(chars))
    IN  IF t = <<>> THEN Num(0)
        ELSE IF Head(t) = "-"
             THEN LET u == UnsignedToNumber(Tail(t))
                  IN  IF u.t = "nan" THEN u ELSE Milli(0 - u.n)
        ELSE IF Head(t) = "+" THEN UnsignedToNumber(Tail(t))
        ELSE UnsignedToNumber(t)

\* Number(value)
ToNumber(v) ==
    CASE v.t = "number" -> v
      [] v.t = "nan" -> v
      [] v.t = "undefined" -> NaNValue
      [] v.t = "object" -> Num(0)
      [] v.t = "boolean" -> Num(100 * v.n)
      [] v.t = "string" -> StringToNumber(v.s)

----------------------------------------------------------------------------
(* Regular expressions of the schema: a sequence of atoms, each a          *)
(* character class repeated lo..hi times, with or without anchors          *)

Atom(class, lo, hi) == [class |-> class, lo |-> lo, hi |-> hi]

InClass(c, class) == IF class = "\\d" THEN IsDigit(c) ELSE c = class

Min(a, b) == IF a < b THEN a ELSE b

\* the positions a match of atoms k.. can end at when it starts after position i
RECURSIVE MatchEnds(_, _, _, _)
MatchEnds(atoms, k, chars, i) ==
    IF k > Len(atoms) THEN {i}
    ELSE UNION { MatchEnds(atoms, k + 1, chars, i + n) :
                   n \in { m \in atoms[k].lo .. Min(atoms[k].hi, Len(chars) - i) :
                             \A j \in (i + 1)..(i + m) : InClass(chars[j], atoms[k].class) } }

RegexTest(re, chars) ==
    \E start \in (IF re.anchorStart THEN {0} ELSE 0..Len(chars)) :
        \E end \in MatchEnds(re.atoms, 1, chars, start) :
            re.anchorEnd => end = Len(chars)

\* the longest input the model hands to a regular expression
MaxChars == 12

\* /^\d+$/
DigitsRegex ==
    [atoms |-> <<Atom("\\d", 1, MaxChars)>>, anchorStart |-> TRUE, anchorEnd |-> TRUE]

\* /\d{4}-\d{2}-\d{2}/, the date pattern without its anchors
DateRegexUnanchored ==
    [atoms |-> <<Atom("\\d", 4, 4), Atom("-", 1, 1), Atom("\\d", 2, 2),
                 Atom("-", 1, 1), Atom("\\d", 2, 2)>>,
     anchorStart |-> FALSE, anchorEnd |-> FALSE]

\* /^\d{4}-\d{2}-\d{2}$/
DateRegex ==
    [atoms |-> <<Atom("\\d", 4, 4), Atom("-", 1, 1), Atom("\\d", 2, 2),
                 Atom("-", 1, 1), Atom("\\d", 2, 2)>>,
     anchorStart |-> TRUE, anchorEnd |-> TRUE]

----------------------------------------------------------------------------
(* The validation schema: src/types/schemas (creditCardFormSchema); the     *)
(* formSchema of the first copies of the card pages is the same without    *)
(* expiry_date                                                             *)

StringFields == {"card_name", "card_network", "bank_name", "color"}
DateFields == {"last_bill_date", "last_due_date", "joining_date", "expiry_date"}
AmountFields == {"credit_limit", "current_balance", "joining_fees", "annual_fees"}
Fields == StringFields \cup {"last_four_digits"} \cup DateFields \cup AmountFields

\* z.string().min(1, ...): the issues it raises for a value
RequiredString(v) ==
    IF v.t # "string" THEN {"invalid_type"}
    ELSE IF Len(v.s) < 1 THEN {"too_small"} ELSE {}

\* z.string().length(4, ...).regex(/^\d+$/, ...): every check is run
LastFourDigits(v) ==
    IF v.t # "string" THEN {"invalid_type"}
    ELSE (IF Len(v.s) > 4 THEN {"too_big"} ELSE IF Len(v.s) < 4 THEN {"too_small"} ELSE {})
         \cup (IF RegexTest(DigitsRegex, v.s) THEN {} ELSE {"invalid_string"})

\* z.string().regex(/^\d{4}-\d{2}-\d{2}$/, ...)
DateString(v) ==
    IF v.t # "string" THEN {"invalid_type"}
    ELSE IF RegexTest(DateRegex, v.s) THEN {} ELSE {"invalid_string"}

\* z.string().regex(...).optional()
OptionalDateString(v) == IF v.t = "undefined" THEN {} ELSE DateString(v)

\* z.literal('')
EmptyLiteral(v) == IF v = Str(<<>>) THEN {} ELSE {"invalid_literal"}

\* z.string().regex(...).optional().or(z.literal(''))
OptionalDate(v) ==
    IF OptionalDateString(v) = {} \/ EmptyLiteral(v) = {} THEN {} ELSE {"invalid_union"}

\* z.coerce.number() without the minimum
CoercedAmountNoMin(v) ==
    IF ToNumber(v).t = "nan" THEN {"invalid_type"} ELSE {}

\* z.coerce.number().min(0, ...)
CoercedAmount(v) ==
    IF ToNumber(v).t = "nan" THEN {"invalid_type"}
    ELSE IF ToNumber(v).n < 0 THEN {"too_small"} ELSE {}

\* the issues z.object({...}) reports with path [f]
FieldIssues(f, v) ==
    CASE f \in StringFields -> RequiredString(v)
      [] f = "last_four_digits" -> LastFourDigits(v)
      [] f \in DateFields -> OptionalDate(v)
      [] f \in AmountFields -> CoercedAmount(v)

\* the value of field f in the parsed record
FieldOutput(f, v) == IF f \in AmountFields THEN ToNumber(v) ELSE v

\* creditCardFormSchema.safeParse(input), issues grouped by field as zodResolver does
creditCardFormSchema(input) ==
    LET errors == [f \in Fields |-> FieldIssues(f, input[f])]
        success == \A f \in Fields : errors[f] = {}
    IN  [ran |-> TRUE, success |-> success, errors |-> errors,
         data |-> [f \in Fields |-> IF success THEN FieldOutput(f, input[f]) ELSE Undefined]]

\* inputs of the model: strings spelled as character sequences
Chars1234 == <<"1", "2", "3", "4">>
CharsDate == <<"2", "0", "2", "4", "-", "0", "1", "-", "0", "5">>

\* the values a field is tried with; the first of each kind is well-formed
Candidates(f) ==
    CASE f \in StringFields ->
           {Str(<<"a">>), Str(<<" ">>), Str(<<>>), Undefined, Num(500)}
      [] f = "last_four_digits" ->
           {Str(Chars1234), Str(<<"1", "2", "3">>), Str(Chars1234 \o <<"5">>),
            Str(<<"1", "2", "a", "4">>), Str(<<"1", "2", " ", "4">>), Str(<<>>),
            Undefined, Num(123400)}
      [] f \in DateFields ->
           {Str(<<>>), Undefined, Str(CharsDate), Str(<<"9", "9", "9", "9", "-", "9", "9", "-", "9", "9">>),
            Str(<<"2", "0", "2", "4", "-", "1", "-", "0", "5">>), Str(CharsDate \o <<"x">>),
            Str(<<"x">> \o CharsDate), Str(<<"2", "0", "2", "4", "/", "0", "1", "/", "0", "5">>),
            Null}
      [] f \in AmountFields ->
           {Num(0), Num(5000000), Num(1), Num(-1), Num(-10000), Str(<<>>), Str(<<"1", "2">>),
            Str(<<" ", "7", " ">>), Str(<<"0", ".", "0", "1">>), Str(<<"-", "3">>),
            Str(<<"a", "b", "c">>), Undefined, Null, NaNValue, Bool(TRUE)}

BaseInput ==
    [f \in Fields |->
        CASE f \in StringFields -> Str(<<"a">>)
          [] f = "last_four_digits" -> Str(Chars1234)
          [] f \in DateFields -> Str(<<>>)
          [] f \in AmountFields -> Num(0)]

\* the records that differ from BaseInput in at most k fields
RECURSIVE Variants(_)
Variants(k) ==
    IF k = 0 THEN {BaseInput}
    ELSE LET less == Variants(k - 1)
         IN  less \cup UNION { UNION { { [r EXCEPT ![f] = v] : v \in Candidates(f) } :
                                         f \in Fields } : r \in less }

NotRun ==
    [ran |-> FALSE, success |-> FALSE, errors |-> [f \in Fields |-> {}],
     data |-> [f \in Fields |-> Undefined]]

InitSchema ==
    /\ schemaInput \in Variants(MaxOddFields)
    /\ schemaResult = NotRun

\* the schema variables while another part runs
SchemaIdle ==
    /\ schemaInput = BaseInput
    /\ schemaResult = NotRun

\* form.handleSubmit: the resolver validates the values
safeParse ==
    /\ ~schemaResult.ran
    /\ schemaResult' = creditCardFormSchema(schemaInput)
    /\ UNCHANGED <<schemaInput, nonSchemaVars>>

----------------------------------------------------------------------------
(* The reminder validation schema: src/pages/PaymentReminders.tsx 76-82    *)

\* a Date object, valid or an Invalid Date
DateObject(valid) == [t |-> "date", s |-> <<>>, n |-> IF valid THEN 1 ELSE 0]

ReminderFields == {"credit_card_id", "due_date", "amount", "notes", "is_paid"}

\* z.date()
DateInstance(v) ==
    IF v.t # "date" THEN {"invalid_type"}
    ELSE IF v.n = 0 THEN {"invalid_date"} ELSE {}

\* z.coerce.number().min(0.01, ...)
ReminderAmount(v) ==
    IF ToNumber(v).t = "nan" THEN {"invalid_type"}
    ELSE IF ToNumber(v).n < Num(1).n THEN {"too_small"} ELSE {}

\* z.string().optional()
OptionalString(v) ==
    IF v.t = "undefined" \/ v.t = "string" THEN {} ELSE {"invalid_type"}

\* z.boolean().default(false)
BooleanDefault(v) ==
    IF v.t = "undefined" \/ v.t = "boolean" THEN {} ELSE {"invalid_type"}

ReminderFieldIssues(f, v) ==
    CASE f = "credit_card_id" -> RequiredString(v)
      [] f = "due_date" -> DateInstance(v)
      [] f = "amount" -> ReminderAmount(v)
      [] f = "notes" -> OptionalString(v)
      [] f = "is_paid" -> BooleanDefault(v)

ReminderFieldOutput(f, v) ==
    CASE f = "amount" -> ToNumber(v)
      [] f = "is_paid" -> (IF v.t = "undefined" THEN Bool(FALSE) ELSE v)
      [] OTHER -> v

\* reminderFormSchema.safeParse(input), issues grouped by field
reminderFormSchema(input) ==
    LET errors == [f \in ReminderFields |-> ReminderFieldIssues(f, input[f])]
        success == \A f \in ReminderFields : errors[f] = {}
    IN  [ran |-> TRUE, success |-> success, errors |-> errors,
         data |-> [f \in ReminderFields |->
                      IF success THEN ReminderFieldOutput(f, input[f]) ELSE Undefined]]

\* the values a reminder field is tried with: the number input hands the
\* amount over as the string typed, form.reset as the stored number
ReminderCandidates(f) ==
    CASE f = "credit_card_id" -> {Str(<<"1">>), Str(<<>>), Undefined}
      [] f = "due_date" -> {DateObject(TRUE), DateObject(FALSE), Undefined}
      [] f = "amount" ->
           {Num(0), Num(1), Milli(5), Milli(1), Milli(9), Num(2), Num(5000000), Num(-1),
            Str(<<"0">>), Str(<<"0", ".", "0", "1">>), Str(<<"0", ".", "0", "0", "5">>),
            Str(<<"0", ".", "5">>), Str(<<"1", "2">>), Str(<<"-", "3">>), Str(<<>>),
            Str(<<"a", "b", "c">>), Undefined, Null, NaNValue, Bool(TRUE)}
      [] f = "notes" -> {Str(<<>>), Str(<<"a">>), Undefined}
      [] f = "is_paid" -> {Bool(FALSE), Bool(TRUE), Undefined}

ReminderInputs ==
    { [credit_card_id |-> c, due_date |-> d, amount |-> a, notes |-> n, is_paid |-> p] :
        c \in ReminderCandidates("credit_card_id"), d \in ReminderCandidates("due_date"),
        a \in ReminderCandidates("amount"), n \in ReminderCandidates("notes"),
        p \in ReminderCandidates("is_paid") }

ReminderNotRun ==
    [ran |-> FALSE, success |-> FALSE, errors |-> [f \in ReminderFields |-> {}],
     data |-> [f \in ReminderFields |-> Undefined]]

ReminderBaseInput ==
    [f \in ReminderFields |->
        CASE f = "credit_card_id" -> Str(<<"1">>)
          [] f = "due_date" -> DateObject(TRUE)
          [] f = "amount" -> Num(1)
          [] f = "notes" -> Str(<<>>)
          [] f = "is_paid" -> Bool(FALSE)]

InitReminderSchema ==
    /\ reminderInput \in ReminderInputs
    /\ reminderResult = ReminderNotRun

\* the reminder schema variables while another part runs
ReminderSchemaIdle ==
    /\ reminderInput = ReminderBaseInput
    /\ reminderResult = ReminderNotRun

\* form.handleSubmit: the resolver validates the dialog's values
reminderSafeParse ==
    /\ ~reminderResult.ran
    /\ reminderResult' = reminderFormSchema(reminderInput)
    /\ UNCHANGED <<reminderInput, nonReminderSchemaVars>>

----------------------------------------------------------------------------
(* The card forms: src/pages/AddCreditCard.tsx, src/pages/EditCreditCard.tsx *)
(* Strings are character sequences and amounts are in hundredths, as in    *)
(* the values above.  Of the form's values the model keeps the four that   *)
(* onSubmit computes with; the others are spread into the record as they   *)
(* are.                                                                    *)

AddPage == "/credit-cards/add"
EditPage == "/credit-cards/edit/:id"
ListPage == "/credit-cards"

FormDateFields == {"last_bill_date", "last_due_date"}
FormAmountFields == {"credit_limit", "current_balance"}

\* the calendar of Date and of the date picker
IsLeapYear(y) == (y % 4 = 0 /\ y % 100 # 0) \/ y % 400 = 0

DaysInMonth(y, m) ==
    IF m = 2 THEN (IF IsLeapYear(y) THEN 29 ELSE 28)
    ELSE IF m \in {4, 6, 9, 11} THEN 30 ELSE 31

\* String(n) of a non-negative integer
RECURSIVE NumberToString(_)
NumberToString(n) ==
    IF n < 10 THEN <<DigitChars[n + 1]>>
    ELSE NumberToString(n \div 10) \o <<DigitChars[(n % 10) + 1]>>

\* chars.padStart(len, pad)
RECURSIVE PadStart(_, _, _)
PadStart(chars, len, pad) ==
    IF Len(chars) >= len THEN chars ELSE PadStart(<<pad>> \o chars, len, pad)

\* the date picker's onChange: `${year}-${month}-${day}` of the day picked
FormatDate(date) ==
    NumberToString(date.y) \o <<"-">> \o PadStart(NumberToString(date.m), 2, "0")
        \o <<"-">> \o PadStart(NumberToString(date.d), 2, "0")

\* the days the user picks in the calendar, and no day (a day deselected)
DatePicks ==
    {[y |-> 2023, m |-> 12, d |-> 31], [y |-> 2024, m |-> 1, d |-> 5],
     [y |-> 2024, m |-> 1, d |-> 25], [y |-> 2024, m |-> 3, d |-> 1]}
NoDate == [y |-> 0, m |-> 0, d |-> 0]

\* the numbers parseFloat(e.target.value) || 0 leaves in an amount field
Amounts == {-100, 0, 1200000, 5000000}

\* days from 1970-01-01 to the given day (MakeDay of new Date)
LeapYearsBefore(y) == ((y - 1) \div 4) - ((y - 1) \div 100) + ((y - 1) \div 400)

DayFromYear(y) == 365 * (y - 1970) + LeapYearsBefore(y) - LeapYearsBefore(1970)

RECURSIVE DaysBeforeMonth(_, _)
DaysBeforeMonth(y, m) ==
    IF m = 1 THEN 0 ELSE DaysBeforeMonth(y, m - 1) + DaysInMonth(y, m - 1)

\* a Date: its time value is days * MsPerDay + ms, or NaN when not valid
InvalidDate == [valid |-> FALSE, days |-> 0, ms |-> 0]

\* new Date(chars) of a date-only string: midnight UTC of that day
NewDate(chars) ==
    IF ~RegexTest(DateRegex, chars) THEN InvalidDate
    ELSE LET y == DigitsValue(SubSeq(chars, 1, 4))
             m == DigitsValue(SubSeq(chars, 6, 7))
             d == DigitsValue(SubSeq(chars, 9, 10))
         IN  IF m \in 1..12 /\ d \in 1..DaysInMonth(y, m)
             THEN [valid |-> TRUE,
                   days |-> DayFromYear(y) + DaysBeforeMonth(y, m) + d - 1,
                   ms |-> 0]
             ELSE InvalidDate

MsPerDay == 1000 * 60 * 60 * 24

\* Math.round(whole + part / unit) - whole, for -unit < part < unit
MathRound(part, unit) ==
    IF 2 * part >= unit THEN 1 ELSE IF 2 * part < -unit THEN -1 ELSE 0

\* the difference taken the other way round
DayDifferenceReversed(billDate, dueDate) ==
    IF ~billDate.valid \/ ~dueDate.valid THEN NaNValue
    ELSE Num(100 * ((billDate.days - dueDate.days)
                     + MathRound(billDate.ms - dueDate.ms, MsPerDay)))

\* Math.round((dueDate.getTime() - billDate.getTime()) / (1000 * 60 * 60 * 24))
DayDifference(billDate, dueDate) ==
    IF ~billDate.valid \/ ~dueDate.valid THEN NaNValue
    ELSE Num(100 * ((dueDate.days - billDate.days)
                     + MathRound(dueDate.ms - billDate.ms, MsPerDay)))

\* let billCycleDays = initial; if (values.last_bill_date && values.last_due_date) ...
BillCycleDays(vals, initial) ==
    IF vals.last_bill_date # <<>> /\ vals.last_due_date # <<>>
    THEN DayDifference(NewDate(vals.last_bill_date), NewDate(vals.last_due_date))
    ELSE initial

\* the difference kept at zero or above
AvailableCreditClamped(vals) ==
    IF vals.credit_limit < vals.current_balance THEN 0
    ELSE vals.credit_limit - vals.current_balance

\* const availableCredit = values.credit_limit - values.current_balance
AvailableCredit(vals) == vals.credit_limit - vals.current_balance

\* cardData = {...values, bill_cycle_days: billCycleDays, available_credit: availableCredit}
CardData(vals, initial) ==
    [last_bill_date |-> vals.last_bill_date, last_due_date |-> vals.last_due_date,
     credit_limit |-> vals.credit_limit, current_balance |-> vals.current_balance,
     bill_cycle_days |-> BillCycleDays(vals, initial),
     available_credit |-> AvailableCredit(vals)]

\* useForm({defaultValues: ...})
DefaultValues ==
    [last_bill_date |-> <<>>, last_due_date |-> <<>>, credit_limit |-> 0,
     current_balance |-> 0]

NoCard == [loaded |-> FALSE, bill_cycle_days |-> Null]

NoRequest ==
    [state |-> "none", op |-> None, values |-> DefaultValues,
     data |-> CardData(DefaultValues, Null)]

\* the cards getCreditCardById can answer with: as the add form writes them
StoredCards ==
    { CardData([last_bill_date |-> b, last_due_date |-> d, credit_limit |-> 5000000,
                current_balance |-> 1200000], Null) :
        b \in {FormatDate(p) : p \in DatePicks} \cup {<<>>},
        d \in {FormatDate(p) : p \in DatePicks} \cup {<<>>} }

\* an update that leaves the stored available_credit as it was
UpdatedCardKeepsCredit(stored, data) ==
    [data EXCEPT !.available_credit = stored.available_credit]

\* .update(cardData).eq('id', id): the row takes every column of cardData, and
\* cardData names all the columns the model keeps
UpdatedCard(stored, data) == data

\* zodResolver(formSchema): handleSubmit calls onSubmit only with valid values
Valid(vals) ==
    /\ \A f \in FormDateFields : FieldIssues(f, Str(vals[f])) = {}
    /\ \A f \in FormAmountFields : FieldIssues(f, Num(vals[f])) = {}

\* the form is on screen and no submission is awaited
FormEditable ==
    /\ request.state = "none"
    /\ formPage = AddPage \/ (formPage = EditPage /\ ~isLoading)

\* no notification shown yet
NoToast == "none"

FirstCopy == "EditCreditCard.tsx 1-504"
SecondCopy == "EditCreditCard.tsx 505-979"

\* the submit control never disabled
SubmitAlwaysEnabled == formPage \notin {AddPage, EditPage}

\* <Button type="submit" disabled={...}>; the second copy of the edit page
\* shows the spinner in place of the form while isLoading
SubmitDisabled ==
    CASE formPage = AddPage -> isLoading
      [] formPage = EditPage /\ editCopy = FirstCopy -> isSaving \/ isLoading
      [] formPage = EditPage /\ editCopy = SecondCopy -> isLoading
      [] OTHER -> TRUE

\* the fetch of the edit page has not answered: isLoading is true from the
\* first render and no submission has set it
FetchPending == formPage = EditPage /\ isLoading /\ inFlight = 0

MoreSubmissions == inFlight < MaxInFlight

InitForm ==
    /\ formPage \in {AddPage, EditPage}
    /\ editCopy \in (IF formPage = EditPage THEN {FirstCopy, SecondCopy} ELSE {FirstCopy})
    /\ inFlight = 0
    /\ formToast = NoToast
    /\ storedCards \in (IF formPage = EditPage THEN {<<card>> : card \in StoredCards}
                                               ELSE {<<>>})
    /\ values = DefaultValues
    /\ creditCard = NoCard
    /\ isLoading = (formPage = EditPage)
    /\ isSaving = FALSE
    /\ request = NoRequest

\* the form variables while another part runs
FormIdle ==
    /\ formPage = ListPage
    /\ editCopy = FirstCopy
    /\ inFlight = 0
    /\ formToast = NoToast
    /\ storedCards = <<>>
    /\ values = DefaultValues
    /\ creditCard = NoCard
    /\ isLoading = FALSE
    /\ isSaving = FALSE
    /\ request = NoRequest

\* DatePicker onChange / setDate of a date field
onDateChange ==
    /\ FormEditable
    /\ \E f \in FormDateFields :
         \E date \in DatePicks \cup {NoDate} :
            values' = [values EXCEPT ![f] = IF date # NoDate THEN FormatDate(date) ELSE <<>>]
    /\ UNCHANGED <<formPage, creditCard, isLoading, isSaving, request, editCopy, inFlight, formToast,
                   storedCards, nonFormVars>>

\* Input onChange of an amount field
onAmountChange ==
    /\ FormEditable
    /\ \E f \in FormAmountFields :
         \E n \in Amounts :
            values' = [values EXCEPT ![f] = n]
    /\ UNCHANGED <<formPage, creditCard, isLoading, isSaving, request, editCopy, inFlight, formToast,
                   storedCards, nonFormVars>>

\* EditCreditCard useEffect: the card is found and fills the form, or it is
\* not found, or the fetch fails
fetchCreditCard ==
    /\ FetchPending
    /\ isLoading' = FALSE
    /\ \/ \E card \in {storedCards[i] : i \in DOMAIN storedCards} :
            /\ creditCard' = [loaded |-> TRUE, bill_cycle_days |-> card.bill_cycle_days]
            /\ values' = [last_bill_date |-> card.last_bill_date,
                          last_due_date |-> card.last_due_date,
                          credit_limit |-> card.credit_limit,
                          current_balance |-> card.current_balance]
            /\ UNCHANGED formPage
       \/ /\ formPage' = ListPage
          /\ UNCHANGED <<values, creditCard>>
       \/ UNCHANGED <<formPage, values, creditCard>>
    /\ UNCHANGED <<isSaving, request, editCopy, inFlight, formToast, storedCards,
                   nonFormVars>>

\* AddCreditCard onSubmit, up to the await of addCreditCard(cardData)
AddCreditCardOnSubmit ==
    /\ formPage = AddPage /\ ~SubmitDisabled /\ MoreSubmissions
    /\ Valid(values)
    /\ isLoading' = TRUE
    /\ inFlight' = inFlight + 1
    /\ UNCHANGED formToast
    /\ request' = [state |-> "pending", op |-> "addCreditCard", values |-> values,
                   data |-> CardData(values, Null)]
    /\ UNCHANGED <<formPage, values, creditCard, isSaving, editCopy, storedCards,
                   nonFormVars>>

\* AddCreditCard onSubmit, from the answer on
AddCreditCardSettled ==
    /\ request.state = "pending" /\ request.op = "addCreditCard"
    /\ \E error \in BOOLEAN :
         /\ formPage' = IF error THEN formPage ELSE ListPage
         /\ formToast' = IF error THEN "Failed to add credit card"
                                  ELSE "Credit card added successfully"
         /\ storedCards' = IF error THEN storedCards
                                    ELSE Append(storedCards, request.data)
    /\ isLoading' = FALSE
    /\ inFlight' = inFlight - 1
    /\ request' = NoRequest
    /\ UNCHANGED <<values, creditCard, isSaving, editCopy, nonFormVars>>

\* EditCreditCard onSubmit, up to the await of updateCreditCard(id, cardData);
\* it returns at once while no card is loaded
EditCreditCardOnSubmit ==
    /\ formPage = EditPage /\ ~SubmitDisabled /\ MoreSubmissions
    /\ Valid(values)
    /\ creditCard.loaded
    /\ IF editCopy = FirstCopy
       THEN isSaving' = TRUE /\ UNCHANGED isLoading
       ELSE isLoading' = TRUE /\ UNCHANGED isSaving
    /\ inFlight' = inFlight + 1
    /\ UNCHANGED formToast
    /\ request' = [state |-> "pending", op |-> "updateCreditCard", values |-> values,
                   data |-> CardData(values, creditCard.bill_cycle_days)]
    /\ UNCHANGED <<formPage, values, creditCard, editCopy, storedCards, nonFormVars>>

\* EditCreditCard onSubmit, from the answer on
EditCreditCardSettled ==
    /\ request.state = "pending" /\ request.op = "updateCreditCard"
    /\ \E error \in BOOLEAN :
         /\ formPage' = IF error THEN formPage ELSE ListPage
         /\ formToast' = IF error THEN "Failed to update credit card"
                                  ELSE "Credit card updated successfully"
         /\ storedCards' = IF error THEN storedCards
                                    ELSE [storedCards EXCEPT ![1] = UpdatedCard(@, request.data)]
    /\ IF editCopy = FirstCopy
       THEN isSaving' = FALSE /\ UNCHANGED isLoading
       ELSE isLoading' = FALSE /\ UNCHANGED isSaving
    /\ inFlight' = inFlight - 1
    /\ request' = NoRequest
    /\ UNCHANGED <<values, creditCard, editCopy, nonFormVars>>

----------------------------------------------------------------------------
(* The card list page: src/pages/CreditCards.tsx                           *)
(* A handler that awaits a remote call is a record of the values its       *)
(* closure captured, kept in the page's calls until the answer arrives;    *)
(* answers arrive in any order.                                            *)

\* the cards getCreditCards() answers with
ServerCards ==
    <<[id |-> 1, card_name |-> "a"], [id |-> 2, card_name |-> "b"],
      [id |-> 3, card_name |-> "a"]>>

\* prevCards.filter(card => card.id === cardToDelete)
OnlyCard(cards, id) == SelectSeq(cards, LAMBDA card : card.id = id)

\* prevCards.filter(card => card.id !== cardToDelete)
WithoutCard(cards, id) == SelectSeq(cards, LAMBDA card : card.id # id)

\* a sequence without its i-th element
RemoveAt(seq, i) == SubSeq(seq, 1, i - 1) \o SubSeq(seq, i + 1, Len(seq))

InitCardsPage ==
    /\ creditCards = <<>>
    /\ cardsLoading = TRUE
    /\ cardToDelete = NoId
    /\ cardDialog = NoId
    /\ cardCalls = <<>>
    /\ cardsToast = NoToast

\* the card list page while another part runs
CardsPageIdle ==
    /\ creditCards = <<>>
    /\ cardsLoading = FALSE
    /\ cardToDelete = NoId
    /\ cardDialog = NoId
    /\ cardCalls = <<>>
    /\ cardsToast = NoToast

\* fetchCreditCards, from the answer of getCreditCards() on
fetchCreditCards ==
    /\ cardsLoading
    /\ \E error \in BOOLEAN :
         /\ creditCards' = IF error THEN creditCards ELSE ServerCards
         /\ cardsToast' = IF error THEN "Failed to load credit cards" ELSE cardsToast
    /\ cardsLoading' = FALSE
    /\ UNCHANGED <<cardToDelete, cardDialog, cardCalls, nonCardsPageVars>>

\* the Delete button of a card: setCardToDelete(card.id), and its dialog opens
openDeleteCardDialog ==
    /\ ~cardsLoading /\ cardDialog = NoId
    /\ \E i \in DOMAIN creditCards :
         /\ cardToDelete' = creditCards[i].id
         /\ cardDialog' = creditCards[i].id
    /\ UNCHANGED <<creditCards, cardsLoading, cardCalls, cardsToast, nonCardsPageVars>>

\* AlertDialogCancel: setCardToDelete(null)
cancelDeleteCard ==
    /\ cardDialog # NoId
    /\ cardToDelete' = NoId
    /\ cardDialog' = NoId
    /\ UNCHANGED <<creditCards, cardsLoading, cardCalls, cardsToast, nonCardsPageVars>>

\* the dialog closed with the Escape key: no handler of the page runs
dismissDeleteCardDialog ==
    /\ cardDialog # NoId
    /\ cardDialog' = NoId
    /\ UNCHANGED <<creditCards, cardsLoading, cardToDelete, cardCalls, cardsToast,
                   nonCardsPageVars>>

\* AlertDialogAction: handleDeleteCard, up to the await of deleteCreditCard
handleDeleteCard ==
    /\ cardDialog # NoId
    /\ Len(cardCalls) < MaxCardCalls
    /\ cardDialog' = NoId
    /\ cardCalls' = IF cardToDelete = NoId THEN cardCalls
                    ELSE Append(cardCalls, [id |-> cardToDelete])
    /\ UNCHANGED <<creditCards, cardsLoading, cardToDelete, cardsToast, nonCardsPageVars>>

\* handleDeleteCard, from the answer on: the call returned an error or threw,
\* or it succeeded
handleDeleteCardSettled ==
    /\ \E i \in DOMAIN cardCalls :
         /\ cardCalls' = RemoveAt(cardCalls, i)
         /\ \E error \in BOOLEAN :
              /\ creditCards' = IF error THEN creditCards
                                ELSE WithoutCard(creditCards, cardCalls[i].id)
              /\ cardsToast' = IF error THEN "Failed to delete credit card"
                               ELSE "Credit card deleted successfully"
    /\ cardToDelete' = NoId
    /\ UNCHANGED <<cardsLoading, cardDialog, nonCardsPageVars>>

----------------------------------------------------------------------------
(* The reminders page, in its two copies: src/pages/PaymentReminders.tsx   *)
(* and unnamed/part_005.  The copies differ in the paid/unpaid button, in  *)
(* the delete dialog and in onSubmit's date conversion.  A handler sees    *)
(* the state of the render it was created in: a setState it has just       *)
(* called shows only in the next render.  Of a reminder the model keeps    *)
(* id, amount, is_paid and due_date.                                       *)

PageCopy == "src/pages/PaymentReminders.tsx"
Part005Copy == "unnamed/part_005"

\* no due date: the form's `undefined as unknown as Date`
NoDue == "undefined"

Reminder(id, amount, paid, due) ==
    [id |-> id, amount |-> amount, is_paid |-> paid, due_date |-> due]

\* editingReminder = null
NoReminder == Reminder(NoId, 0, FALSE, NoDue)

\* the reminders getPaymentReminders() answers with
ServerReminders == <<Reminder(1, 100, FALSE, "d1"), Reminder(2, 200, TRUE, "d2")>>

\* the id the backend gives an inserted reminder: one the list does not hold
InsertedReminderId(list) ==
    CHOOSE id \in 1..(Len(list) + 1) : \A i \in DOMAIN list : list[i].id # id

ReminderValues(amount, paid, due) == [amount |-> amount, is_paid |-> paid, due_date |-> due]

\* the form's defaultValues
DefaultReminderValues == ReminderValues(0, FALSE, NoDue)

\* useEffect on editingReminder: form.reset(...) from it, or to the defaults
ResetFor(editing) ==
    IF editing.id # NoId
    THEN ReminderValues(editing.amount, editing.is_paid, editing.due_date)
    ELSE DefaultReminderValues

\* the form after a render in which editingReminder became `editing`
AfterRender(editing, form) == IF editing # editingReminder THEN ResetFor(editing) ELSE form

\* an event: its handler, the reminder it was on, and the user events so far
NoEvent == [kind |-> "none", id |-> NoId, n |-> 0]
UserEvent(kind, id) == [kind |-> kind, id |-> id, n |-> lastEvent.n + 1]
Answer(kind) == [kind |-> kind, id |-> NoId, n |-> lastEvent.n]
MoreEvents == lastEvent.n < MaxReminderEvents

ReminderCall(kind, id, data) == [kind |-> kind, id |-> id, data |-> data]

\* zodResolver(reminderFormSchema) on the values the model keeps
ValidReminder(vals) ==
    /\ ReminderFieldIssues("amount", Num(vals.amount)) = {}
    /\ vals.due_date # NoDue

\* { ...reminder, ...reminderData }
Merged(reminder, data) ==
    [reminder EXCEPT !.amount = data.amount, !.is_paid = data.is_paid,
                     !.due_date = data.due_date]

\* prev.map(reminder => reminder.id === id ? { ...reminder, ...data } : reminder)
MergeIn(list, id, data) ==
    [i \in DOMAIN list |-> IF list[i].id = id THEN Merged(list[i], data) ELSE list[i]]

\* { ...r, is_paid: !r.is_paid }
TogglePaid(r) == [r EXCEPT !.is_paid = ~r.is_paid]

\* prev.map(r => ({ ...r, is_paid: !r.is_paid })): every reminder toggled
ToggleInAll(list, id) == [i \in DOMAIN list |-> TogglePaid(list[i])]

\* prev.map(r => r.id === id ? { ...r, is_paid: !r.is_paid } : r)
ToggleIn(list, id) ==
    [i \in DOMAIN list |-> IF list[i].id = id THEN TogglePaid(list[i]) ELSE list[i]]

\* prev.filter(reminder => reminder.id !== id)
WithoutReminder(list, id) == SelectSeq(list, LAMBDA r : r.id # id)

\* the ids a reminder can have in a behaviour
ReminderIds == 1..(MaxReminderEvents + 2)

\* the is_paid column of payment_reminders before the page has written
InitialPaid ==
    [id \in ReminderIds |->
        \E i \in DOMAIN ServerReminders :
            ServerReminders[i].id = id /\ ServerReminders[i].is_paid]

\* the column after an update or insert of that row has been stored
Stored(id, paid) == [remotePaid EXCEPT ![id] = paid]

InitRemindersPage ==
    /\ remotePaid = InitialPaid
    /\ remindersCopy \in {PageCopy, Part005Copy}
    /\ reminders = <<>>
    /\ remindersLoading = TRUE
    /\ isDialogOpen = FALSE
    /\ editingReminder = NoReminder
    /\ reminderToDelete = NoId
    /\ reminderForm = DefaultReminderValues
    /\ reminderCalls = <<>>
    /\ remindersToast = NoToast
    /\ lastEvent = NoEvent

\* the reminders page while another part runs
RemindersPageIdle ==
    /\ remotePaid = InitialPaid
    /\ remindersCopy = "none"
    /\ reminders = <<>>
    /\ remindersLoading = FALSE
    /\ isDialogOpen = FALSE
    /\ editingReminder = NoReminder
    /\ reminderToDelete = NoId
    /\ reminderForm = DefaultReminderValues
    /\ reminderCalls = <<>>
    /\ remindersToast = NoToast
    /\ lastEvent = NoEvent

RemindersShown == remindersCopy # "none" /\ ~remindersLoading

\* fetchData, from the answers on
fetchData ==
    /\ remindersCopy # "none" /\ remindersLoading
    /\ \E error \in BOOLEAN :
         /\ reminders' = IF error THEN reminders ELSE ServerReminders
         /\ remindersToast' = IF error THEN "Failed to load data" ELSE remindersToast
    /\ remindersLoading' = FALSE
    /\ lastEvent' = Answer("fetchData")
    /\ UNCHANGED <<remindersCopy, isDialogOpen, editingReminder, reminderToDelete,
                   reminderForm, reminderCalls, remotePaid, nonRemindersPageVars>>

\* Add Reminder button: setEditingReminder(null); setIsDialogOpen(true)
openAddDialog ==
    /\ MoreEvents
    /\ RemindersShown /\ ~isDialogOpen
    /\ editingReminder' = NoReminder
    /\ isDialogOpen' = TRUE
    /\ reminderForm' = AfterRender(NoReminder, reminderForm)
    /\ lastEvent' = UserEvent("openAddDialog", NoId)
    /\ UNCHANGED <<remindersCopy, reminders, remindersLoading, reminderToDelete,
                   reminderCalls, remindersToast, remotePaid, nonRemindersPageVars>>

\* the pencil button of a reminder: setEditingReminder(reminder); setIsDialogOpen(true)
openEditDialog ==
    /\ MoreEvents
    /\ RemindersShown /\ ~isDialogOpen
    /\ \E i \in DOMAIN reminders :
         /\ editingReminder' = reminders[i]
         /\ reminderForm' = AfterRender(reminders[i], reminderForm)
         /\ lastEvent' = UserEvent("openEditDialog", reminders[i].id)
    /\ isDialogOpen' = TRUE
    /\ UNCHANGED <<remindersCopy, reminders, remindersLoading, reminderToDelete,
                   reminderCalls, remindersToast, remotePaid, nonRemindersPageVars>>

\* Dialog onOpenChange(false): the dialog is closed without saving
closeDialog ==
    /\ MoreEvents
    /\ isDialogOpen
    /\ isDialogOpen' = FALSE
    /\ lastEvent' = UserEvent("closeDialog", NoId)
    /\ UNCHANGED <<remindersCopy, reminders, remindersLoading, editingReminder,
                   reminderToDelete, reminderForm, reminderCalls, remindersToast,
                   remotePaid, nonRemindersPageVars>>

\* a field of the dialog form is changed
changeReminderForm ==
    /\ MoreEvents
    /\ isDialogOpen
    /\ \/ \E due \in {"d1", "d2"} : reminderForm' = [reminderForm EXCEPT !.due_date = due]
       \/ reminderForm' = [reminderForm EXCEPT !.amount = 300]
       \/ reminderForm' = [reminderForm EXCEPT !.is_paid = ~reminderForm.is_paid]
    /\ lastEvent' = UserEvent("changeReminderForm", NoId)
    /\ UNCHANGED <<remindersCopy, reminders, remindersLoading, isDialogOpen,
                   editingReminder, reminderToDelete, reminderCalls, remindersToast,
                   remotePaid, nonRemindersPageVars>>

\* onSubmit(vals) as seen by a handler of a render in which editingReminder
\* was `editing`, up to its await: the call it issues, or none when it throws.
\* PageCopy: format(values.due_date, 'yyyy-MM-dd') throws on an undefined date;
\* Part005Copy: values.due_date.toISOString() does, in the insert branch.
OnSubmitCalls(vals, editing) ==
    IF editing.id # NoId
    THEN IF remindersCopy = PageCopy /\ vals.due_date = NoDue THEN <<>>
         ELSE <<ReminderCall("update", editing.id, vals)>>
    ELSE IF vals.due_date = NoDue THEN <<>>
         ELSE <<ReminderCall("insert", NoId, vals)>>

\* the toast onSubmit's catch block shows when it threw before the await
OnSubmitToast(vals, editing) ==
    IF OnSubmitCalls(vals, editing) = <<>> THEN "Failed to save payment reminder"
    ELSE remindersToast

\* the dialog form submitted: form.handleSubmit(onSubmit)
submitReminderDialog ==
    /\ MoreEvents
    /\ isDialogOpen /\ ValidReminder(reminderForm)
    /\ reminderCalls' = reminderCalls \o OnSubmitCalls(reminderForm, editingReminder)
    /\ remindersToast' = OnSubmitToast(reminderForm, editingReminder)
    /\ lastEvent' = UserEvent("submitReminderDialog", editingReminder.id)
    /\ UNCHANGED <<remindersCopy, reminders, remindersLoading, isDialogOpen,
                   editingReminder, reminderToDelete, reminderForm, remotePaid, nonRemindersPageVars>>

\* onSubmit, from the answer of updatePaymentReminder / addPaymentReminder on
onSubmitSettled ==
    /\ \E i \in DOMAIN reminderCalls :
         LET c == reminderCalls[i]
         IN  /\ c.kind \in {"update", "insert"}
             /\ reminderCalls' = RemoveAt(reminderCalls, i)
             /\ \E error \in BOOLEAN :
                  IF error
                  THEN /\ remindersToast' = "Failed to save payment reminder"
                       /\ UNCHANGED <<reminders, isDialogOpen, editingReminder, reminderForm,
                                      remotePaid>>
                  ELSE /\ remotePaid' =
                            Stored(IF c.kind = "update" THEN c.id
                                   ELSE InsertedReminderId(reminders), c.data.is_paid)
                       /\ reminders' =
                            IF c.kind = "update" THEN MergeIn(reminders, c.id, c.data)
                            ELSE Append(reminders,
                                        Reminder(InsertedReminderId(reminders), c.data.amount,
                                                 c.data.is_paid, c.data.due_date))
                       /\ remindersToast' = IF c.kind = "update"
                                            THEN "Payment reminder updated"
                                            ELSE "Payment reminder added"
                       /\ isDialogOpen' = FALSE
                       /\ editingReminder' = NoReminder
                       /\ reminderForm' =
                            IF remindersCopy = Part005Copy THEN DefaultReminderValues
                            ELSE AfterRender(NoReminder, reminderForm)
    /\ lastEvent' = Answer("onSubmitSettled")
    /\ UNCHANGED <<remindersCopy, remindersLoading, reminderToDelete, nonRemindersPageVars>>

\* PageCopy, Mark as Paid / Mark as Unpaid of a reminder:
\* setEditingReminder(reminder); form.setValue('is_paid', paid);
\* onSubmit({...form.getValues(), is_paid: paid})
markPaidOrUnpaid ==
    /\ MoreEvents
    /\ remindersCopy = PageCopy /\ RemindersShown /\ ~isDialogOpen
    /\ \E i \in DOMAIN reminders :
         LET vals == [reminderForm EXCEPT !.is_paid = ~reminders[i].is_paid]
         IN  /\ reminderCalls' = reminderCalls \o OnSubmitCalls(vals, editingReminder)
             /\ remindersToast' = OnSubmitToast(vals, editingReminder)
             /\ editingReminder' = reminders[i]
             /\ reminderForm' = AfterRender(reminders[i], vals)
             /\ lastEvent' = UserEvent("markPaidOrUnpaid", reminders[i].id)
    /\ UNCHANGED <<remindersCopy, reminders, remindersLoading, isDialogOpen,
                   reminderToDelete, remotePaid, nonRemindersPageVars>>

\* Part005Copy, the paid/unpaid button: handleToggleStatus(reminder), up to the await
handleToggleStatus ==
    /\ MoreEvents
    /\ remindersCopy = Part005Copy /\ RemindersShown /\ ~isDialogOpen
    /\ \E i \in DOMAIN reminders :
         /\ reminderCalls' =
              Append(reminderCalls,
                     ReminderCall("toggle", reminders[i].id,
                                  ReminderValues(reminders[i].amount, ~reminders[i].is_paid,
                                                 reminders[i].due_date)))
         /\ lastEvent' = UserEvent("handleToggleStatus", reminders[i].id)
    /\ UNCHANGED <<remindersCopy, reminders, remindersLoading, isDialogOpen,
                   editingReminder, reminderToDelete, reminderForm, remindersToast,
                   remotePaid, nonRemindersPageVars>>

\* handleToggleStatus, from the answer on
handleToggleStatusSettled ==
    /\ \E i \in DOMAIN reminderCalls :
         LET c == reminderCalls[i]
         IN  /\ c.kind = "toggle"
             /\ reminderCalls' = RemoveAt(reminderCalls, i)
             /\ \E error \in BOOLEAN :
                  IF error
                  THEN /\ remindersToast' = "Failed to update payment status"
                       /\ UNCHANGED <<reminders, remotePaid>>
                  ELSE /\ remotePaid' = Stored(c.id, c.data.is_paid)
                       /\ reminders' = ToggleIn(reminders, c.id)
                       /\ remindersToast' = IF c.data.is_paid THEN "Payment marked as paid"
                                            ELSE "Payment marked as unpaid"
    /\ lastEvent' = Answer("handleToggleStatusSettled")
    /\ UNCHANGED <<remindersCopy, remindersLoading, isDialogOpen, editingReminder,
                   reminderToDelete, reminderForm, nonRemindersPageVars>>

\* handleDeleteReminder() as seen by a handler of a render in which
\* reminderToDelete was `id`, up to its await
DeleteReminderCalls(id) ==
    IF id = NoId THEN <<>> ELSE <<ReminderCall("delete", id, DefaultReminderValues)>>

\* PageCopy, the Delete button of a reminder's confirmation dialog:
\* setReminderToDelete(reminder.id); handleDeleteReminder()
confirmDeleteReminder ==
    /\ MoreEvents
    /\ remindersCopy = PageCopy /\ RemindersShown /\ ~isDialogOpen
    /\ \E i \in DOMAIN reminders :
         /\ reminderCalls' = reminderCalls \o DeleteReminderCalls(reminderToDelete)
         /\ reminderToDelete' = reminders[i].id
         /\ lastEvent' = UserEvent("confirmDeleteReminder", reminders[i].id)
    /\ UNCHANGED <<remindersCopy, reminders, remindersLoading, isDialogOpen,
                   editingReminder, reminderForm, remindersToast, remotePaid, nonRemindersPageVars>>

\* Part005Copy, the trash button of a reminder: setReminderToDelete(reminder.id)
pickReminderToDelete ==
    /\ MoreEvents
    /\ remindersCopy = Part005Copy /\ RemindersShown /\ ~isDialogOpen
    /\ \E i \in DOMAIN reminders :
         /\ reminderToDelete' = reminders[i].id
         /\ lastEvent' = UserEvent("pickReminderToDelete", reminders[i].id)
    /\ UNCHANGED <<remindersCopy, reminders, remindersLoading, isDialogOpen,
                   editingReminder, reminderForm, reminderCalls, remindersToast,
                   remotePaid, nonRemindersPageVars>>

\* Part005Copy, AlertDialogCancel: setReminderToDelete(null)
cancelDeleteReminder ==
    /\ MoreEvents
    /\ remindersCopy = Part005Copy /\ reminderToDelete # NoId
    /\ reminderToDelete' = NoId
    /\ lastEvent' = UserEvent("cancelDeleteReminder", NoId)
    /\ UNCHANGED <<remindersCopy, reminders, remindersLoading, isDialogOpen,
                   editingReminder, reminderForm, reminderCalls, remindersToast,
                   remotePaid, nonRemindersPageVars>>

\* Part005Copy, AlertDialogAction: handleDeleteReminder, up to the await
handleDeleteReminder ==
    /\ MoreEvents
    /\ remindersCopy = Part005Copy /\ RemindersShown /\ reminderToDelete # NoId
    /\ reminderCalls' = reminderCalls \o DeleteReminderCalls(reminderToDelete)
    /\ lastEvent' = UserEvent("handleDeleteReminder", reminderToDelete)
    /\ UNCHANGED <<remindersCopy, reminders, remindersLoading, isDialogOpen,
                   editingReminder, reminderToDelete, reminderForm, remindersToast,
                   remotePaid, nonRemindersPageVars>>

\* handleDeleteReminder, from the answer on
handleDeleteReminderSettled ==
    /\ \E i \in DOMAIN reminderCalls :
         LET c == reminderCalls[i]
         IN  /\ c.kind = "delete"
             /\ reminderCalls' = RemoveAt(reminderCalls, i)
             /\ \E error \in BOOLEAN :
                  /\ reminders' = IF error THEN reminders
                                  ELSE WithoutReminder(reminders, c.id)
                  /\ remindersToast' = IF error THEN "Failed to delete payment reminder"
                                       ELSE "Payment reminder deleted"
    /\ reminderToDelete' = NoId
    /\ lastEvent' = Answer("handleDeleteReminderSettled")
    /\ UNCHANGED <<remindersCopy, remindersLoading, isDialogOpen, editingReminder,
                   reminderForm, remotePaid, nonRemindersPageVars>>

----------------------------------------------------------------------------
(* The statements page: src/pages/BillStatements.tsx                       *)

\* the statements getBillStatements(id) answers with
ServerStatements == <<[id |-> 1, file_name |-> "a.pdf"], [id |-> 2, file_name |-> "b.pdf"]>>

\* result.data of uploadBillStatement: the inserted row, under an id the list
\* does not hold
UploadedRows(list) ==
    <<[id |-> CHOOSE id \in 1..(Len(list) + 1) : \A i \in DOMAIN list : list[i].id # id,
       file_name |-> "c.pdf"]>>

\* billDate and dueDate both picked or not; statementAmount as the number
\* input gives it ('' for text that is no number, so parseFloat is never NaN)
UploadFields(dates, amount) == [dates |-> dates, amount |-> amount]

\* resetUploadForm(): the dates undefined, the amount ''
ResetFields == UploadFields(FALSE, "")

\* prev.filter(s => s.id !== statement.id)
WithoutStatement(list, id) == SelectSeq(list, LAMBDA s : s.id # id)

\* useState<File | null>(null)
NoFile == "null"

Pdf == "application/pdf"

\* file.type of the file picked in the input; "" when the browser knows no type
FileTypes == {Pdf, "image/png", ""}

\* every picked file taken as the selected file
AcceptsAnyFile(type) == TRUE

\* if (file.type !== 'application/pdf') { toast.error(...); return; }
AcceptsFile(type) == type = Pdf

\* <Button onClick={handleUpload} disabled={!selectedFile || isUploading}>
UploadDisabled == selectedFile = NoFile \/ isUploading

\* isUploading reset on the success path only
UploadingAfterNoFinally(failed) == failed

\* finally { setIsUploading(false) }
UploadingAfter(failed) == FALSE

\* a call in flight: uploadBillStatement(id, selectedFile, ...) with the type of
\* its file, or deleteBillStatement(statement.id)
StatementCall(kind, id, file) == [kind |-> kind, id |-> id, file |-> file]

MoreStatementCalls == Len(statementCalls) < MaxStatementCalls

MoreStatements == Len(statements) < MaxStatements

InitStatementsPage ==
    /\ statementsView = "loading"
    /\ statements = <<>>
    /\ isUploading = FALSE
    /\ uploadDialogOpen = FALSE
    /\ selectedFile = NoFile
    /\ uploadFields = ResetFields
    /\ statementCalls = <<>>
    /\ statementsToast = NoToast

\* the statements page while another part runs
StatementsPageIdle ==
    /\ statementsView = "unmounted"
    /\ statements = <<>>
    /\ isUploading = FALSE
    /\ uploadDialogOpen = FALSE
    /\ selectedFile = NoFile
    /\ uploadFields = ResetFields
    /\ statementCalls = <<>>
    /\ statementsToast = NoToast

\* useEffect loadData(): the card's dates give the default dates when it has
\* them; the statements are loaded, or the load fails
loadData ==
    /\ statementsView = "loading"
    /\ statementsView' = "shown"
    /\ \E error \in BOOLEAN, dates \in BOOLEAN :
         /\ statements' = IF error THEN statements ELSE ServerStatements
         /\ uploadFields' = IF error THEN uploadFields ELSE UploadFields(dates, "")
         /\ statementsToast' = IF error THEN "Failed to load data" ELSE statementsToast
    /\ UNCHANGED <<isUploading, uploadDialogOpen, selectedFile, statementCalls,
                   nonStatementsPageVars>>

\* Upload Statement: onClick={() => setUploadDialogOpen(true)}
openUploadDialog ==
    /\ statementsView = "shown" /\ ~uploadDialogOpen
    /\ uploadDialogOpen' = TRUE
    /\ UNCHANGED <<statementsView, statements, isUploading, selectedFile, uploadFields,
                   statementCalls, statementsToast, nonStatementsPageVars>>

\* <Dialog onOpenChange={setUploadDialogOpen}>: closed by Escape or the cross
dismissUploadDialog ==
    /\ uploadDialogOpen
    /\ uploadDialogOpen' = FALSE
    /\ UNCHANGED <<statementsView, statements, isUploading, selectedFile, uploadFields,
                   statementCalls, statementsToast, nonStatementsPageVars>>

\* Cancel: setUploadDialogOpen(false); resetUploadForm()
cancelUpload ==
    /\ uploadDialogOpen
    /\ uploadDialogOpen' = FALSE
    /\ selectedFile' = NoFile
    /\ uploadFields' = ResetFields
    /\ UNCHANGED <<statementsView, statements, isUploading, statementCalls,
                   statementsToast, nonStatementsPageVars>>

\* handleFileChange: a PDF is kept, any other file refused
handleFileChange ==
    /\ uploadDialogOpen
    /\ \E type \in FileTypes :
         /\ selectedFile' = IF AcceptsFile(type) THEN type ELSE selectedFile
         /\ statementsToast' = IF AcceptsFile(type) THEN statementsToast
                               ELSE "Only PDF files are supported"
    /\ UNCHANGED <<statementsView, statements, isUploading, uploadDialogOpen,
                   uploadFields, statementCalls, nonStatementsPageVars>>

\* the date pickers and the amount input
changeUploadFields ==
    /\ uploadDialogOpen
    /\ \E dates \in BOOLEAN, amount \in {"", "12.50"} :
         /\ UploadFields(dates, amount) # uploadFields
         /\ uploadFields' = UploadFields(dates, amount)
    /\ UNCHANGED <<statementsView, statements, isUploading, uploadDialogOpen,
                   selectedFile, statementCalls, statementsToast, nonStatementsPageVars>>

\* handleUpload, up to the await of uploadBillStatement(...)
handleUpload ==
    /\ uploadDialogOpen /\ ~UploadDisabled
    /\ MoreStatementCalls /\ MoreStatements
    /\ IF selectedFile = NoFile
       THEN UNCHANGED <<isUploading, statementCalls, statementsToast>>
       ELSE IF ~uploadFields.dates \/ uploadFields.amount = ""
       THEN /\ statementsToast' = "All fields are required"
            /\ UNCHANGED <<isUploading, statementCalls>>
       ELSE /\ isUploading' = TRUE
            /\ statementCalls' = Append(statementCalls, StatementCall("upload", NoId, selectedFile))
            /\ UNCHANGED statementsToast
    /\ UNCHANGED <<statementsView, statements, uploadDialogOpen, selectedFile,
                   uploadFields, nonStatementsPageVars>>

\* handleUpload, from the answer on: uploadBillStatement throws, or returns
\* the inserted rows
handleUploadSettled ==
    /\ \E i \in DOMAIN statementCalls :
         /\ statementCalls[i].kind = "upload"
         /\ statementCalls' = RemoveAt(statementCalls, i)
    /\ \E error \in BOOLEAN :
         /\ IF error
            THEN /\ statementsToast' = "Failed to upload statement"
                 /\ UNCHANGED <<statements, uploadDialogOpen, selectedFile, uploadFields>>
            ELSE /\ statements' = UploadedRows(statements) \o statements
                 /\ statementsToast' = "Statement uploaded successfully"
                 /\ uploadDialogOpen' = FALSE
                 /\ selectedFile' = NoFile
                 /\ uploadFields' = ResetFields
         /\ isUploading' = UploadingAfter(error)
    /\ UNCHANGED <<statementsView, nonStatementsPageVars>>

\* handleDeleteStatement(statement), confirmed in window.confirm, up to the
\* await of deleteBillStatement(statement.id)
handleDeleteStatement ==
    /\ statementsView = "shown"
    /\ MoreStatementCalls
    /\ \E i \in DOMAIN statements :
         statementCalls' = Append(statementCalls, StatementCall("delete", statements[i].id, NoFile))
    /\ UNCHANGED <<statementsView, statements, isUploading, uploadDialogOpen,
                   selectedFile, uploadFields, statementsToast, nonStatementsPageVars>>

\* handleDeleteStatement, from the answer on
handleDeleteStatementSettled ==
    /\ \E i \in DOMAIN statementCalls :
         /\ statementCalls[i].kind = "delete"
         /\ statementCalls' = RemoveAt(statementCalls, i)
         /\ \E error \in BOOLEAN :
              /\ statements' = IF error THEN statements
                               ELSE WithoutStatement(statements, statementCalls[i].id)
              /\ statementsToast' = IF error THEN "Failed to delete statement"
                                    ELSE "Statement deleted successfully"
    /\ UNCHANGED <<statementsView, isUploading, uploadDialogOpen, selectedFile,
                   uploadFields, nonStatementsPageVars>>

----------------------------------------------------------------------------
(* The dashboard: src/pages/Dashboard.tsx, and its copies in                *)
(* src/lib/utils/format.ts and unnamed/part_003.  Times are in hours from   *)
(* the midnight of the day the page is opened; a due date is a day.  Of a   *)
(* reminder the model keeps id, is_paid and due_date.                       *)

\* the due dates of the reminders getPaymentReminders() answers with, in days
\* from the day the page is opened
DueDays == {-8, -7, 0, 7, 8}

\* the hour of a render: midnight or noon of the day the page is opened
RenderHours == {0, 12}

DashboardReminder(id, paid, day) == [id |-> id, is_paid |-> paid, due_date |-> day]

\* new Date(reminder.due_date): the midnight of the due day
DueTime(reminder) == reminder.due_date * 24

\* addDays(date, amount)
AddDays(time, amount) == time + amount * 24

\* isBefore(date, dateToCompare)
IsBefore(date, dateToCompare) == date < dateToCompare

\* reminder => !reminder.is_paid && isBefore(new Date(), addDays(new Date(reminder.due_date), 7))
IsUpcoming(reminder, time) ==
    ~reminder.is_paid /\ IsBefore(time, AddDays(DueTime(reminder), 7))

\* one element put in its place in a list sorted by due date, after its equals
RECURSIVE InsertByDue(_, _)
InsertByDue(sorted, reminder) ==
    IF sorted = <<>> THEN <<reminder>>
    ELSE IF DueTime(reminder) - DueTime(Head(sorted)) < 0
         THEN <<reminder>> \o sorted
         ELSE <<Head(sorted)>> \o InsertByDue(Tail(sorted), reminder)

\* .sort((a, b) => new Date(a.due_date).getTime() - new Date(b.due_date).getTime())
RECURSIVE SortByDue(_)
SortByDue(list) ==
    IF list = <<>> THEN <<>>
    ELSE InsertByDue(SortByDue(SubSeq(list, 1, Len(list) - 1)), list[Len(list)])

\* .slice(0, end)
Slice(list, end) == SubSeq(list, 1, Min(end, Len(list)))

\* const upcomingReminders = paymentReminders.filter(...).sort(...).slice(0, 3)
UpcomingReminders(list, time) ==
    Slice(SortByDue(SelectSeq(list, LAMBDA reminder : IsUpcoming(reminder, time))), 3)

\* a list getPaymentReminders() may answer with: n reminders, the i-th paid or
\* not and due as f[i] says
ReminderList(n, f) == [i \in 1..n |-> DashboardReminder(i, f[i][1], f[i][2])]

InitDashboard ==
    /\ paymentReminders = <<>>
    /\ dashboardLoading = TRUE
    /\ renderedAt = 0
    /\ upcomingReminders = <<>>

\* the dashboard while another part runs
DashboardIdle ==
    /\ paymentReminders = <<>>
    /\ dashboardLoading = FALSE
    /\ renderedAt = 0
    /\ upcomingReminders = <<>>

\* useEffect fetchData(): the reminders are set unless a fetch failed, isLoading
\* is reset in finally, and the page renders
dashboardFetchData ==
    /\ dashboardLoading
    /\ \E error \in BOOLEAN, time \in RenderHours, n \in 0..MaxDashboardReminders :
       \E f \in [1..n -> BOOLEAN \X DueDays] :
         /\ paymentReminders' = IF error THEN paymentReminders ELSE ReminderList(n, f)
         /\ renderedAt' = time
         /\ upcomingReminders' = UpcomingReminders(paymentReminders', time)
    /\ dashboardLoading' = FALSE
    /\ UNCHANGED nonDashboardVars

\* a later render of the page computes the list again from the same reminders
renderDashboard ==
    /\ ~dashboardLoading
    /\ \E time \in RenderHours :
         /\ renderedAt < time
         /\ renderedAt' = time
         /\ upcomingReminders' = UpcomingReminders(paymentReminders, time)
    /\ UNCHANGED <<paymentReminders, dashboardLoading, nonDashboardVars>>

----------------------------------------------------------------------------
(* Specifications *)

\* the pages while another part runs
ViewsIdle == CardsPageIdle /\ RemindersPageIdle /\ StatementsPageIdle /\ DashboardIdle

Init ==
    InitClient /\ InitSession /\ route = "/" /\ SchemaIdle /\ FormIdle /\ ReminderSchemaIdle
    /\ ViewsIdle

\* the operations on credit_cards and payment_reminders
Next ==
    \/ addCreditCard
    \/ getCreditCards
    \/ getCreditCardById
    \/ updateCreditCard
    \/ deleteCreditCard
    \/ addPaymentReminder
    \/ getPaymentReminders
    \/ updatePaymentReminder
    \/ deletePaymentReminder
    \/ authChange

Spec == Init /\ [][Next]_vars

\* the operations on bill_statements and the storage bucket
NextStatements ==
    \/ uploadBillStatementUpload
    \/ uploadBillStatementInsert
    \/ uploadBillStatementRemove
    \/ getBillStatements
    \/ deleteBillStatementSelect
    \/ deleteBillStatementRemove
    \/ deleteBillStatementDelete
    \/ getStatementUrl
    \/ authChange

SpecStatements == Init /\ [][NextStatements]_vars

\* the three operations that insert a row, and the session changing under them
NextInserts ==
    \/ addCreditCard
    \/ addPaymentReminder
    \/ uploadBillStatementUpload
    \/ uploadBillStatementInsert
    \/ uploadBillStatementRemove
    \/ authChange

SpecInserts == Init /\ [][NextInserts]_vars

InitAuth ==
    InitClient /\ InitSession /\ SchemaIdle /\ FormIdle /\ ReminderSchemaIdle /\ ViewsIdle

NextAuth ==
    \/ authEvent
    \/ onAuthStateChange
    \/ getCurrentUserAnswer
    \/ loadUser
    \/ navigate
    \/ navigateToLogin
    \/ handleSignOut
    \/ handleSignOutSettled

SpecAuth == InitAuth /\ [][NextAuth]_vars

\* the same with the event loop's guarantees: the continuation of a settled
\* await runs, and a delivered event's callback runs
SpecAuthFair ==
    InitAuth /\ [][NextAuth]_vars /\ WF_vars(loadUser) /\ WF_vars(onAuthStateChange)

\* the page is opened: any environment, either copy of the service module
InitStartup ==
    /\ InitClient /\ FirstRender
    /\ env \in [url : EnvValues, key : EnvValues]
    /\ moduleCopy \in {LayoutCopy, ServicesCopy}
    /\ supabase = ModuleLoading
    /\ SchemaIdle /\ FormIdle /\ ReminderSchemaIdle /\ ViewsIdle

NextStartup ==
    \/ loadServiceModule
    \/ authEvent
    \/ onAuthStateChange
    \/ getCurrentUserAnswer
    \/ loadUser
    \/ navigate
    \/ navigateToLogin
    \/ handleSignOut
    \/ handleSignOutSettled

SpecStartup == InitStartup /\ [][NextStartup]_vars

NextSchema ==
    \/ safeParse

InitSchemaSpec ==
    /\ InitClient /\ authUser = NoUser /\ InitSession /\ route = "/" /\ InitSchema
    /\ FormIdle /\ ReminderSchemaIdle /\ ViewsIdle

SpecSchema == InitSchemaSpec /\ [][NextSchema]_vars

NextForm ==
    \/ onDateChange
    \/ onAmountChange
    \/ fetchCreditCard
    \/ AddCreditCardOnSubmit
    \/ AddCreditCardSettled
    \/ EditCreditCardOnSubmit
    \/ EditCreditCardSettled

InitFormSpec ==
    /\ InitClient /\ authUser = "u1" /\ InitSession /\ route = "/" /\ SchemaIdle
    /\ InitForm /\ ReminderSchemaIdle /\ ViewsIdle

SpecForm == InitFormSpec /\ [][NextForm]_vars

NextReminderSchema ==
    \/ reminderSafeParse

InitReminderSchemaSpec ==
    /\ InitClient /\ authUser = NoUser /\ InitSession /\ route = "/" /\ SchemaIdle
    /\ FormIdle /\ InitReminderSchema /\ ViewsIdle

SpecReminderSchema == InitReminderSchemaSpec /\ [][NextReminderSchema]_vars

\* every part but the pages, at rest
NonViewsIdle ==
    /\ InitClient /\ authUser = "u1" /\ InitSession /\ route = "/" /\ SchemaIdle
    /\ FormIdle /\ ReminderSchemaIdle /\ DashboardIdle

NextCardsPage ==
    \/ fetchCreditCards
    \/ openDeleteCardDialog
    \/ cancelDeleteCard
    \/ dismissDeleteCardDialog
    \/ handleDeleteCard
    \/ handleDeleteCardSettled

InitCardsPageSpec ==
    NonViewsIdle /\ InitCardsPage /\ RemindersPageIdle /\ StatementsPageIdle

SpecCardsPage == InitCardsPageSpec /\ [][NextCardsPage]_vars

NextRemindersPage ==
    \/ fetchData
    \/ openAddDialog
    \/ openEditDialog
    \/ closeDialog
    \/ changeReminderForm
    \/ submitReminderDialog
    \/ onSubmitSettled
    \/ markPaidOrUnpaid
    \/ handleToggleStatus
    \/ handleToggleStatusSettled
    \/ confirmDeleteReminder
    \/ pickReminderToDelete
    \/ cancelDeleteReminder
    \/ handleDeleteReminder
    \/ handleDeleteReminderSettled

InitRemindersPageSpec ==
    NonViewsIdle /\ CardsPageIdle /\ InitRemindersPage /\ StatementsPageIdle

SpecRemindersPage == InitRemindersPageSpec /\ [][NextRemindersPage]_vars

\* one of the pages that submit a form is opened: a card form, or the
\* statements page with its upload dialog
InitSubmissions ==
    /\ InitClient /\ authUser = "u1" /\ InitSession /\ route = "/" /\ SchemaIdle
    /\ ReminderSchemaIdle /\ CardsPageIdle /\ RemindersPageIdle /\ DashboardIdle
    /\ \/ InitForm /\ StatementsPageIdle
       \/ FormIdle /\ InitStatementsPage

NextSubmissions ==
    \/ onDateChange
    \/ onAmountChange
    \/ fetchCreditCard
    \/ AddCreditCardOnSubmit
    \/ AddCreditCardSettled
    \/ EditCreditCardOnSubmit
    \/ EditCreditCardSettled
    \/ loadData
    \/ openUploadDialog
    \/ dismissUploadDialog
    \/ cancelUpload
    \/ handleFileChange
    \/ changeUploadFields
    \/ handleUpload
    \/ handleUploadSettled
    \/ handleDeleteStatement
    \/ handleDeleteStatementSettled

SpecSubmissions == InitSubmissions /\ [][NextSubmissions]_vars

\* the statements page on its own
InitStatementsPageSpec ==
    NonViewsIdle /\ CardsPageIdle /\ RemindersPageIdle /\ InitStatementsPage

NextStatementsPage ==
    \/ loadData
    \/ openUploadDialog
    \/ dismissUploadDialog
    \/ cancelUpload
    \/ handleFileChange
    \/ changeUploadFields
    \/ handleUpload
    \/ handleUploadSettled
    \/ handleDeleteStatement
    \/ handleDeleteStatementSettled

SpecStatementsPage == InitStatementsPageSpec /\ [][NextStatementsPage]_vars

\* the dashboard on its own
InitDashboardSpec ==
    /\ InitClient /\ authUser = "u1" /\ InitSession /\ route = "/" /\ SchemaIdle
    /\ FormIdle /\ ReminderSchemaIdle
    /\ CardsPageIdle /\ RemindersPageIdle /\ StatementsPageIdle /\ InitDashboard

NextDashboard ==
    \/ dashboardFetchData
    \/ renderDashboard

SpecDashboard == InitDashboardSpec /\ [][NextDashboard]_vars

\* one of the pages that hold an entity list is opened
InitViews ==
    /\ NonViewsIdle
    /\ \/ InitCardsPage /\ RemindersPageIdle /\ StatementsPageIdle
       \/ CardsPageIdle /\ InitRemindersPage /\ StatementsPageIdle
       \/ CardsPageIdle /\ RemindersPageIdle /\ InitStatementsPage

NextViews ==
    \/ fetchCreditCards
    \/ openDeleteCardDialog
    \/ cancelDeleteCard
    \/ dismissDeleteCardDialog
    \/ handleDeleteCard
    \/ handleDeleteCardSettled
    \/ fetchData
    \/ openAddDialog
    \/ openEditDialog
    \/ closeDialog
    \/ changeReminderForm
    \/ submitReminderDialog
    \/ onSubmitSettled
    \/ markPaidOrUnpaid
    \/ handleToggleStatus
    \/ handleToggleStatusSettled
    \/ confirmDeleteReminder
    \/ pickReminderToDelete
    \/ cancelDeleteReminder
    \/ handleDeleteReminder
    \/ handleDeleteReminderSettled
    \/ loadData
    \/ openUploadDialog
    \/ dismissUploadDialog
    \/ cancelUpload
    \/ handleFileChange
    \/ changeUploadFields
    \/ handleUpload
    \/ handleUploadSettled
    \/ handleDeleteStatement
    \/ handleDeleteStatementSettled

SpecViews == InitViews /\ [][NextViews]_vars

----------------------------------------------------------------------------
(* Properties of the remote data client *)

DataOperations ==
    {"addCreditCard", "getCreditCards", "getCreditCardById", "updateCreditCard",
     "deleteCreditCard", "addPaymentReminder", "getPaymentReminders",
     "updatePaymentReminder", "deletePaymentReminder", "uploadBillStatement",
     "getBillStatements", "deleteBillStatement", "getStatementUrl"}

\* C1: a data operation called while the auth provider reports no user fails
\* with 'User not authenticated' and issues no table or storage request.
UnauthenticatedCallFails ==
    (Idle /\ call.op \in DataOperations /\ call.auth = NoUser)
        => (call.result = "unauth" /\ reqs = <<>>)

\* C2: every table request is scoped to the session user: select, update and
\* delete filter on user_id = the session user's id, insert writes it as user_id.
RequestsScopedToSessionUser ==
    \A i \in DOMAIN reqs :
        reqs[i].target = "table" =>
            /\ call.auth # NoUser
            /\ reqs[i].verb \in {"select", "update", "delete"}
                   => reqs[i].user_filter = call.auth
            /\ reqs[i].verb = "insert" => reqs[i].row_user = call.auth
            /\ \A owner \in reqs[i].owners : owner = call.auth

\* C3: when uploadBillStatement has stored the file and the record insert then
\* fails, the call ends only after a storage remove of exactly the uploaded
\* path, and it throws the insert's error whatever the remove answered.
UploadInsertFailureRemovesFile ==
    (/\ call.op = "uploadBillStatement" /\ Idle
     /\ Len(reqs) >= 2 /\ reqs[1].ok /\ ~reqs[2].ok)
        => /\ Len(reqs) = 3
           /\ reqs[1].verb = "upload" /\ reqs[2].verb = "insert"
           /\ reqs[3].target = "storage" /\ reqs[3].verb = "remove"
           /\ reqs[3].path = reqs[1].path /\ reqs[3].path = call.path
           /\ call.result = "insert"

\* the upload was stored, the insert failed, the remove failed too, and the call is over
UploadInsertFailureWitness ==
    /\ call.op = "uploadBillStatement" /\ Idle
    /\ Len(reqs) = 3 /\ reqs[1].ok /\ ~reqs[2].ok /\ ~reqs[3].ok
    /\ call.path \in storage

StatementPaths == {row.file_path : row \in db["bill_statements"]}

\* C22: after an uploadBillStatement call that ended by throwing (at the
\* authentication check, at the upload or at the record insert) the bucket
\* holds no object at the path the call generated and bill_statements holds
\* no record for that path.
ThrownUploadLeavesNothing ==
    (/\ call.op = "uploadBillStatement" /\ Idle
     /\ call.result \in {"unauth", "upload", "insert"})
        => /\ call.path \notin storage
           /\ call.path \notin StatementPaths

\* C23: after a deleteBillStatement call that has ended, with or without an
\* error, every record left in bill_statements refers to a file that is still
\* in the bucket.
DeleteKeepsRecordsBacked ==
    (call.op = "deleteBillStatement" /\ Idle) => StatementPaths \subseteq storage

InsertOperations == {"addCreditCard", "addPaymentReminder", "uploadBillStatement"}

\* the rows a step adds to table t
AddedRows(t) == db'[t] \ db[t]

\* C27: every row that addCreditCard, addPaymentReminder or uploadBillStatement
\* inserts has as user_id the user the auth provider reported to that call,
\* whatever user_id the caller's data carried.
InsertedRowsBelongToSessionUser ==
    [][\A t \in Tables : \A row \in AddedRows(t) :
          /\ call'.op \in InsertOperations
          /\ call'.auth \in Users
          /\ row.user_id = call'.auth]_vars

\* an insert has succeeded for user u1 with data that named u2 as user_id
InsertedRowsWitness ==
    /\ call.op \in InsertOperations /\ Idle /\ call.result = "ok"
    /\ call.auth = "u1" /\ call.data_user = "u2"
    /\ \E t \in Tables : \E row \in db[t] : row.id = nextId - 1 /\ row.user_id = "u1"

----------------------------------------------------------------------------
(* Properties of the session holder and the route gate *)

GatedRoutes ==
    {"/credit-cards", "/credit-cards/add", "/credit-cards/edit/:id",
     "/credit-cards/:id/statements", "/payment-reminders"}

\* C4: each of the five routes renders its page only with a user and loading
\* false, redirects to /login when loading is false and there is no user, and
\* produces neither the page nor the redirect while loading is true.
ProtectedRoutesGated ==
    \A r \in GatedRoutes :
        /\ Element(r) = Page(r) => (user # NoUser /\ ~loading)
        /\ (~loading /\ user = NoUser) => Element(r) = NavigateLogin
        /\ loading => Element(r) \notin {Page(r), NavigateLogin}

\* a gated route is showing its page
ProtectedRoutesWitness ==
    /\ route \in GatedRoutes
    /\ Rendered = Page(route)
    /\ handled > 0

\* C5: once the startup query has settled and every emitted auth event (at
\* least one) has been handled, the session holder's user is the identity of
\* the most recently emitted event.
SessionFollowsLatestEvent ==
    (startup.pc = "settled" /\ handled >= 1 /\ events = <<>>)
        => user = emitted.last

\* C16: whatever way signOut() ended, once handleSignOut has navigated to
\* /login, no auth event has been emitted since, every emitted event has been
\* delivered and the startup query has settled, the session holder has no user.
SignedOutAfterSignOut ==
    (/\ signOut.pc = "navigated"
     /\ emitted.count = signOut.at
     /\ events = <<>>
     /\ startup.pc = "settled")
        => user = NoUser

DashboardExempt ==
    (Mounted /\ ~loading /\ user = NoUser) => Element("/") = Page("/")

\* C18 as the code has it: "/" is gated like its child routes: the dashboard is
\* rendered only with a user and loading false, and with no user and loading
\* false the route redirects to /login.
DashboardGated ==
    /\ Element("/") = Page("/") => (user # NoUser /\ ~loading)
    /\ (~loading /\ user = NoUser) => Element("/") = NavigateLogin

\* the location is "/", the session has settled without a user, and the
\* route is redirecting
DashboardGatedWitness ==
    /\ Mounted
    /\ route = "/"
    /\ ~loading /\ user = NoUser
    /\ Rendered = NavigateLogin

\* C29: once the startup getCurrentUser call has settled or an auth event has
\* been delivered, loading becomes false; once false it is never true again.
LoadingEndsAndStaysEnded ==
    /\ (startup.pc = "answered" \/ events # <<>>) ~> ~loading
    /\ [][~loading => ~loading']_vars

\* getCurrentUser threw, no event was ever delivered, and loading is false
LoadingEndedWitness ==
    /\ startup.pc = "settled" /\ startup.answer = "throws"
    /\ emitted.count = 0 /\ handled = 0
    /\ ~loading

----------------------------------------------------------------------------
(* Properties of the validation schema *)

NonEmptyString(v) == v.t = "string" /\ v.s # <<>>

FourDigitString(v) ==
    v.t = "string" /\ Len(v.s) = 4 /\ \A i \in 1..4 : IsDigit(v.s[i])

DateShaped(chars) ==
    /\ Len(chars) = 10
    /\ \A i \in {1, 2, 3, 4, 6, 7, 9, 10} : IsDigit(chars[i])
    /\ chars[5] = "-" /\ chars[8] = "-"

AbsentEmptyOrDate(v) ==
    v.t = "undefined" \/ (v.t = "string" /\ (v.s = <<>> \/ DateShaped(v.s)))

CoercesNonNegative(v) == ToNumber(v).t = "number" /\ ToNumber(v).n >= 0

FieldAcceptable(f, v) ==
    CASE f \in StringFields -> NonEmptyString(v)
      [] f = "last_four_digits" -> FourDigitString(v)
      [] f \in DateFields -> AbsentEmptyOrDate(v)
      [] f \in AmountFields -> CoercesNonNegative(v)

\* C9: creditCardFormSchema accepts a record exactly when the four names are
\* non-empty strings, last_four_digits is a string of exactly four digits,
\* every date is absent, empty or dddd-dd-dd, and every amount coerces to a
\* number >= 0; the amounts of an accepted record are numbers.
SchemaAcceptsExactlyWellFormed ==
    schemaResult.ran =>
        /\ schemaResult.success <=> \A f \in Fields : FieldAcceptable(f, schemaInput[f])
        /\ schemaResult.success =>
             \A f \in AmountFields : schemaResult.data[f].t = "number"

\* an accepted record with an amount that arrived as text
SchemaAcceptsWitness ==
    /\ schemaResult.ran /\ schemaResult.success
    /\ \E f \in AmountFields : schemaInput[f].t = "string" /\ schemaInput[f].s # <<>>

\* the single-field violations C10 speaks of
Violates(f, v) ==
    CASE f = "last_four_digits" ->
           v.t = "string" /\ (Len(v.s) # 4 \/ \E i \in DOMAIN v.s : ~IsDigit(v.s[i]))
      [] f \in AmountFields -> ToNumber(v).t = "number" /\ ToNumber(v).n < 0
      [] f \in DateFields -> v.t = "string" /\ v.s # <<>> /\ ~DateShaped(v.s)
      [] OTHER -> FALSE

SingleViolation(input, f) ==
    /\ Violates(f, input[f])
    /\ \A g \in Fields \ {f} : FieldAcceptable(g, input[g])

\* C10: an input that violates the constraint of exactly one field (digits of
\* the wrong length or not digits, negative money, malformed non-empty date)
\* and is otherwise valid is rejected with errors on that field and no other.
SingleViolationReportedOnField ==
    schemaResult.ran =>
        \A f \in Fields :
            SingleViolation(schemaInput, f) =>
                /\ ~schemaResult.success
                /\ {g \in Fields : schemaResult.errors[g] # {}} = {f}

\* a record with one negative amount and nothing else wrong has been validated
SingleViolationWitness ==
    /\ schemaResult.ran
    /\ \E f \in AmountFields : SingleViolation(schemaInput, f)

----------------------------------------------------------------------------
(* Properties of the card forms *)

\* the day a date string of the form stands for
PickOf(chars) == CHOOSE p \in DatePicks : FormatDate(p) = chars

\* the calendar, one day at a time
NextDay(p) ==
    IF p.d < DaysInMonth(p.y, p.m) THEN [p EXCEPT !.d = p.d + 1]
    ELSE IF p.m < 12 THEN [y |-> p.y, m |-> p.m + 1, d |-> 1]
    ELSE [y |-> p.y + 1, m |-> 1, d |-> 1]

Before(p, q) ==
    \/ p.y < q.y
    \/ p.y = q.y /\ p.m < q.m
    \/ p.y = q.y /\ p.m = q.m /\ p.d < q.d

RECURSIVE DaysUntil(_, _)
DaysUntil(p, q) == IF p = q THEN 0 ELSE 1 + DaysUntil(NextDay(p), q)

\* whole days from day p to day q, negative when q is before p
WholeDays(p, q) == IF Before(q, p) THEN 0 - DaysUntil(q, p) ELSE DaysUntil(p, q)

Submitted == request.state = "pending"

\* C6: the record a card form sends has available_credit = credit_limit -
\* current_balance of the validated values, unclamped; a balance above the
\* limit does not stop the submission; 50000 and 12000 give 38000.
AvailableCreditIsLimitMinusBalance ==
    /\ Submitted =>
         /\ request.data.credit_limit = request.values.credit_limit
         /\ request.data.current_balance = request.values.current_balance
         /\ request.data.available_credit
                = request.values.credit_limit - request.values.current_balance
         /\ (request.values.credit_limit = 5000000
                /\ request.values.current_balance = 1200000)
              => request.data.available_credit = 3800000
    /\ (/\ request.state = "none"
        /\ values.credit_limit >= 0 /\ values.current_balance > values.credit_limit)
         => /\ (formPage = AddPage /\ ~isLoading) => ENABLED AddCreditCardOnSubmit
            /\ (formPage = EditPage /\ ~isLoading /\ ~isSaving /\ creditCard.loaded)
                 => ENABLED EditCreditCardOnSubmit

\* the edit form has sent a record whose balance is above its limit
AvailableCreditWitness ==
    /\ Submitted /\ request.op = "updateCreditCard"
    /\ request.values.current_balance > request.values.credit_limit
    /\ request.data.available_credit < 0

\* C26: while every card write comes from the add and edit forms, each stored
\* card has available_credit = credit_limit - current_balance.
StoredCardsKeepAvailableCredit ==
    \A i \in DOMAIN storedCards :
        storedCards[i].available_credit
            = storedCards[i].credit_limit - storedCards[i].current_balance

\* the edit form has rewritten the stored card with another limit
StoredCardsWitness ==
    /\ formToast = "Credit card updated successfully"
    /\ Len(storedCards) = 1
    /\ storedCards[1].credit_limit = 1200000
    /\ storedCards[1].current_balance = 1200000
    /\ storedCards[1].available_credit = 0

\* C7: the add form sends bill_cycle_days = null when one of the two dates is
\* empty, and otherwise the whole number of days from the bill date to the due
\* date, negative when the due date is the earlier; 2024-01-05 and 2024-01-25
\* give 20.
AddFormBillCycleDays ==
    (Submitted /\ request.op = "addCreditCard") =>
        LET bill == request.values.last_bill_date
            due == request.values.last_due_date
        IN  /\ request.data.last_bill_date = bill /\ request.data.last_due_date = due
            /\ IF bill = <<>> \/ due = <<>>
               THEN request.data.bill_cycle_days = Null
               ELSE request.data.bill_cycle_days
                        = Num(100 * WholeDays(PickOf(bill), PickOf(due)))
            /\ (bill = FormatDate([y |-> 2024, m |-> 1, d |-> 5])
                   /\ due = FormatDate([y |-> 2024, m |-> 1, d |-> 25]))
                 => request.data.bill_cycle_days = Num(2000)

\* the add form has sent a record whose due date is before its bill date,
\* the two dates lying on either side of a leap February
AddFormBillCycleWitness ==
    /\ Submitted /\ request.op = "addCreditCard"
    /\ request.values.last_bill_date = FormatDate([y |-> 2024, m |-> 3, d |-> 1])
    /\ request.values.last_due_date = FormatDate([y |-> 2023, m |-> 12, d |-> 31])
    /\ request.data.bill_cycle_days = Num(0 - 6100)

\* C8: the edit form sends bill_cycle_days = null whenever one of the two
\* dates is empty, whatever bill_cycle_days the loaded card had.
EditFormNullCycleWhenDateMissing ==
    (/\ Submitted /\ request.op = "updateCreditCard"
     /\ request.values.last_bill_date = <<>> \/ request.values.last_due_date = <<>>)
        => request.data.bill_cycle_days = Null

----------------------------------------------------------------------------
(* Properties of the reminder schema *)

\* the other fields of the input raise no issue
ReminderOthersFine(input) ==
    \A f \in ReminderFields \ {"amount"} : ReminderFieldIssues(f, input[f]) = {}

\* the amount coerces to a number strictly greater than zero
StrictlyPositive(v) == ToNumber(v).t = "number" /\ ToNumber(v).n > 0

\* C11: reminderFormSchema accepts an amount exactly when it is strictly
\* greater than zero: 0 is rejected with an error on amount, 0.01 and every
\* other positive amount is accepted.
ReminderAmountAcceptedIffPositive ==
    (reminderResult.ran /\ ReminderOthersFine(reminderInput)) =>
        /\ reminderResult.success <=> StrictlyPositive(reminderInput.amount)
        /\ (reminderResult.errors.amount = {}) <=> StrictlyPositive(reminderInput.amount)

----------------------------------------------------------------------------
(* Properties of the card list page *)

\* the step ends a handleDeleteCard call, the one for card id
DeleteCardEnds(id) ==
    \E i \in DOMAIN cardCalls : cardCalls[i].id = id /\ cardCalls' = RemoveAt(cardCalls, i)

\* the list without the cards of that id, the others as they were and in order
ListWithout(list, id) ==
    LET keep == {i \in DOMAIN list : list[i].id # id}
        Rank(i) == Cardinality({j \in keep : j <= i})
    IN  [k \in 1..Cardinality(keep) |-> list[CHOOSE i \in keep : Rank(i) = k]]

\* C12: when a handleDeleteCard call for card C ends, the local list is the
\* previous list without exactly C, the rest unchanged and in order, if the
\* remote delete succeeded, and is unchanged if it failed; cardToDelete is
\* cleared either way.
DeleteCardUpdatesList ==
    [][\A id \in {c.id : c \in {ServerCards[i] : i \in DOMAIN ServerCards}} :
          DeleteCardEnds(id) =>
            /\ cardToDelete' = NoId
            /\ cardsToast' \in {"Credit card deleted successfully",
                                "Failed to delete credit card"}
            /\ cardsToast' = "Credit card deleted successfully"
                 => creditCards' = ListWithout(creditCards, id)
            /\ cardsToast' = "Failed to delete credit card"
                 => creditCards' = creditCards]_vars

\* the middle card has been deleted while another delete was awaited
DeleteCardWitness ==
    /\ cardsToast = "Credit card deleted successfully"
    /\ creditCards = <<ServerCards[1], ServerCards[3]>>
    /\ Len(cardCalls) = 1
    /\ cardToDelete = NoId

----------------------------------------------------------------------------
(* Properties of the reminders page *)

\* the step handles a user event of that kind
Handles(kind) == lastEvent'.kind = kind /\ lastEvent'.n = lastEvent.n + 1

\* the step issues exactly this call and no other
IssuesOnly(c) == reminderCalls' = Append(reminderCalls, c)

\* the step ends a pending call of that kind, the one for reminder id
CallEnds(kind, id) ==
    \E i \in DOMAIN reminderCalls :
        /\ reminderCalls[i].kind = kind /\ reminderCalls[i].id = id
        /\ reminderCalls' = RemoveAt(reminderCalls, i)

\* the fields of the update that only flips r's paid flag
FlippedValues(r) == ReminderValues(r.amount, ~r.is_paid, r.due_date)

\* C13: handleToggleStatus on reminder R sends one update for R's id with
\* is_paid negated and every other field as R's; when the call ends the local
\* list differs only in R's is_paid flag on success and not at all on failure.
ToggleFlipsOnlyPaidFlag ==
    [][/\ Handles("handleToggleStatus") =>
            \E i \in DOMAIN reminders :
                /\ reminders[i].id = lastEvent'.id
                /\ IssuesOnly(ReminderCall("toggle", reminders[i].id,
                                           FlippedValues(reminders[i])))
                /\ reminders' = reminders
       /\ \A id \in ReminderIds :
            CallEnds("toggle", id) =>
                IF remindersToast' = "Failed to update payment status"
                THEN reminders' = reminders
                ELSE /\ remindersToast' \in {"Payment marked as paid",
                                             "Payment marked as unpaid"}
                     /\ DOMAIN reminders' = DOMAIN reminders
                     /\ \A i \in DOMAIN reminders :
                          reminders'[i] =
                            IF reminders[i].id = id
                            THEN [reminders[i] EXCEPT !.is_paid = ~reminders[i].is_paid]
                            ELSE reminders[i]]_vars

\* the first reminder has been marked as paid, the second is as it was
ToggleWitness ==
    /\ remindersCopy = Part005Copy
    /\ remindersToast = "Payment marked as paid"
    /\ reminders = <<[ServerReminders[1] EXCEPT !.is_paid = TRUE], ServerReminders[2]>>
    /\ reminderCalls = <<>>

\* C19: pressing Mark as Paid / Mark as Unpaid on reminder R issues exactly one
\* update, for R's id, whose other fields are R's current fields, whatever the
\* edit dialog held before; never an insert, never an update of another reminder.
MarkPaidUpdatesThatReminder ==
    [][Handles("markPaidOrUnpaid") =>
          \E i \in DOMAIN reminders :
              /\ reminders[i].id = lastEvent'.id
              /\ IssuesOnly(ReminderCall("update", reminders[i].id,
                                         FlippedValues(reminders[i])))]_vars

\* C20: confirming the delete dialog of reminder R issues, in that action, a
\* delete request for R's id and for no other id.
ConfirmDeleteIssuesThatDelete ==
    [][Handles("confirmDeleteReminder") =>
          IssuesOnly(ReminderCall("delete", lastEvent'.id, DefaultReminderValues))]_vars

\* the local list shows of every reminder the is_paid value that is stored
ListShowsStoredPaid ==
    \A i \in DOMAIN reminders : reminders[i].is_paid = remotePaid[reminders[i].id]

\* C21: when the paid toggle has been pressed twice and nothing else, both
\* updates have succeeded and been applied, the local list shows for every
\* reminder the is_paid value that is stored remotely.
DoubleToggleMatchesStored ==
    (/\ remindersCopy = Part005Copy
     /\ lastEvent.n = 2
     /\ lastEvent.kind = "handleToggleStatusSettled"
     /\ remindersToast \in {"Payment marked as paid", "Payment marked as unpaid"}
     /\ reminderCalls = <<>>)
        => ListShowsStoredPaid

\* the add and update requests of onSubmit that are awaited
SaveCalls == {i \in DOMAIN reminderCalls : reminderCalls[i].kind \in {"insert", "update"}}

\* C24: every add or update request the page has issued from its form values
\* carries values that satisfy the reminder schema.
SaveRequestsAreValid ==
    \A i \in SaveCalls : ValidReminder(reminderCalls[i].data)

\* C25: at most one add or update request of the dialog form is in flight.
OneSaveInFlight == Cardinality(SaveCalls) <= 1

----------------------------------------------------------------------------
(* Properties of the submitting forms and of the failure branches *)

\* the uploads the statements page awaits
UploadsInFlight ==
    Cardinality({i \in DOMAIN statementCalls : statementCalls[i].kind = "upload"})

\* a submission of a card form ends in this step
SubmissionEnds == inFlight' = inFlight - 1

\* C14: in the add-card form, the edit-card form and the upload dialog the
\* submit control is disabled in every state in which a submission request is
\* in flight, and at most one request per form is in flight; when a card
\* form's request succeeds the form navigates to the card list, when it fails
\* the form stays.
SubmitBlockedWhileInFlight ==
    [][/\ inFlight' <= 1
       /\ inFlight' >= 1 => SubmitDisabled'
       /\ UploadsInFlight' <= 1
       /\ UploadsInFlight' >= 1 => UploadDisabled'
       /\ SubmissionEnds =>
            /\ formPage \in {AddPage, EditPage}
            /\ formToast' \in {"Credit card added successfully",
                               "Credit card updated successfully"}
                 => formPage' = ListPage
            /\ formToast' \in {"Failed to add credit card",
                               "Failed to update credit card"}
                 => formPage' = formPage]_vars

\* the second copy of the edit form is awaiting its request
SubmitBlockedWitness ==
    /\ formPage = EditPage /\ editCopy = SecondCopy
    /\ inFlight = 1 /\ isLoading /\ SubmitDisabled
    /\ request.state = "pending"

\* a remote call of the page ends in this step
CardCallEnds == \E i \in DOMAIN cardCalls : cardCalls' = RemoveAt(cardCalls, i)
ReminderCallEnds == \E i \in DOMAIN reminderCalls : reminderCalls' = RemoveAt(reminderCalls, i)
StatementCallEnds(kind) ==
    \E i \in DOMAIN statementCalls :
        statementCalls[i].kind = kind /\ statementCalls' = RemoveAt(statementCalls, i)

\* C15: when the remote call of a mutation handler (delete card; save, toggle
\* or delete reminder; upload or delete statement) fails, the step in which
\* the handler finishes leaves the page's list as it was, and isUploading is
\* false after a failed upload.
FailureLeavesListUnchanged ==
    [][/\ (CardCallEnds /\ cardsToast' = "Failed to delete credit card")
            => creditCards' = creditCards
       /\ (ReminderCallEnds /\ remindersToast' \in {"Failed to save payment reminder",
                                                    "Failed to update payment status",
                                                    "Failed to delete payment reminder"})
            => reminders' = reminders
       /\ (StatementCallEnds("upload") /\ statementsToast' = "Failed to upload statement")
            => (statements' = statements /\ ~isUploading')
       /\ (StatementCallEnds("delete") /\ statementsToast' = "Failed to delete statement")
            => statements' = statements]_vars

\* an upload has failed: the list is the loaded one and the flag is down
FailedUploadWitness ==
    /\ statementsToast = "Failed to upload statement"
    /\ statements = ServerStatements
    /\ ~isUploading
    /\ statementCalls = <<>>

----------------------------------------------------------------------------
(* Properties of the statements page *)

UploadCalls == {i \in DOMAIN statementCalls : statementCalls[i].kind = "upload"}

\* C28: the selected file, when there is one, has type application/pdf, and
\* uploadBillStatement is called only with such a file; a picked file of
\* another type does not become the selected file.
SelectedFileIsPdf ==
    /\ selectedFile \in {NoFile, Pdf}
    /\ \A i \in UploadCalls : statementCalls[i].file = Pdf

\* a file that is not a PDF was refused after a PDF had been selected, and
\* the upload went out with the PDF
RefusedFileWitness ==
    /\ statementsToast = "Only PDF files are supported"
    /\ selectedFile = Pdf
    /\ UploadCalls # {}

----------------------------------------------------------------------------
(* Properties of the dashboard *)

\* C30: every reminder of the dashboard's upcoming list is unpaid and is due
\* no later than 7 days after the time of the render; a reminder due later
\* than that is not in the list.
UpcomingAreUnpaidAndDueWithinWeek ==
    \A i \in DOMAIN upcomingReminders :
        /\ ~upcomingReminders[i].is_paid
        /\ DueTime(upcomingReminders[i]) <= AddDays(renderedAt, 7)

====
